---- MODULE Spec2Model ----
(***************************************************************************)
(* Model of the Agent Farm coordinator (lonegunmanb/agentfarm):            *)
(*   - the barrel of gun (token) and its transfer history,                 *)
(*   - agent comrades (records) and the soviet's role -> agent map,        *)
(*   - the protocol validator,                                             *)
(*   - the coordinator operations RegisterAgent / DeregisterAgent /        *)
(*     ProcessYield / QueryStatus of SovietState,                          *)
(*   - the TCP adapter that drives them from per-connection goroutines.    *)
(*                                                                         *)
(* Agent records are Go pointers: they live in `heap` (a sequence, the     *)
(* index is the pointer) so that an evicted record can still be observed.  *)
(* Agent timestamps, agent type and capabilities never influence control   *)
(* flow and are not represented.                                           *)
(***************************************************************************)
EXTENDS Naturals, Integers, Sequences, FiniteSets, TLC

VARIABLES
    soviet,       \* SovietState: [agents, barrel, repo] plus the heap of records
    ret,          \* the last call of the service interface and what it returned
    connState,    \* TCP: per connection "free" | "open" | "closed" (the peer's end
                  \*   is gone) | "released" (the server called conn.Close())
    connections,  \* TCP: TCPServer.connections, role -> connection
    pc,           \* TCP: per connection goroutine, position in its handler
    cmd,          \* TCP: per connection goroutine, line being handled + locals
    issued,       \* history: the lines handed to processMessage, in that order
    wire,         \* TCP: per connection, the messages written to it so far
    inbox,        \* TCP: per connection, the lines received and not yet read
    listener,     \* TCP: TCPServer.listener, "nil" | "open" | "closed"
    acceptors,    \* TCP: the acceptConnections goroutines, by the listener they
                  \*   wait on: s.listener (current) or one a later Start replaced
    ended         \* how the process ended, "" while it runs: the Go runtime's
                  \*   fatal error, or the exit status of main

vars == <<soviet, ret, connState, connections, pc, cmd, issued, wire, inbox, listener,
          acceptors, ended>>

(***************************************************************************)
(* Bounds of the model.                                                    *)
(***************************************************************************)
MaxAgents      == 2   \* Spec: agent records ever allocated by RegisterAgent calls
MaxTransfers   == 2   \* Spec: barrel transfers recorded after creation
MaxFrames      == 2   \* SpecTCP, SpecStream: lines the peers send
MaxStarts      == 2   \* SpecTCP: calls of TCPServer.Start that succeed

People   == "people"
Roles    == {"", People, "developer", "tester"}   \* role strings callers may pass
Payloads == {"p1", "p2"}                          \* yield payloads
WirePayloads == {"p1"}                            \* yield payloads sent over TCP
Conns    == {1, 2}                                \* the connections accepted

NoAgent == 0        \* nil *AgentComrade
NoConn  == 0        \* absent key in TCPServer.connections
NoErr   == ""       \* nil error

AgentStateWaiting == "waiting"
AgentStateWorking == "working"

(***************************************************************************)
(* AgentComrade (pkg/domain/agent.go)                                      *)
(***************************************************************************)
NewAgentComrade(role) ==
    [role |-> role, state |-> AgentStateWaiting, connected |-> FALSE, lastMessage |-> ""]

SetConnected(a, connected) == [a EXCEPT !.connected = connected]

\* Mutant: any change of state is allowed, also to the state the agent is in.
isValidTransition_Any(from, to) == TRUE

isValidTransition(from, to) ==
    CASE from = AgentStateWaiting -> to = AgentStateWorking
      [] from = AgentStateWorking -> to = AgentStateWaiting
      [] OTHER -> FALSE

\* Each mutator returns the error (NoErr for nil) and the record afterwards.
TransitionTo(a, newState) ==
    IF ~isValidTransition(a.state, newState)
    THEN [err |-> "invalid state transition from " \o a.state \o " to " \o newState,
          agent |-> a]
    ELSE [err |-> NoErr, agent |-> [a EXCEPT !.state = newState]]

SetLastMessage(a, message) == [a EXCEPT !.lastMessage = message]

AgentActivate(a, message) ==
    IF a.state # AgentStateWaiting
    THEN [err |-> "cannot activate agent in " \o a.state \o " state, must be waiting",
          agent |-> a]
    ELSE [err |-> NoErr,
          agent |-> SetLastMessage([a EXCEPT !.state = AgentStateWorking], message)]

AgentYield(a) ==
    IF a.state # AgentStateWorking
    THEN [err |-> "cannot yield while in " \o a.state \o " state, must be working",
          agent |-> a]
    ELSE [err |-> NoErr, agent |-> [a EXCEPT !.state = AgentStateWaiting]]

(***************************************************************************)
(* BarrelOfGun (pkg/domain/soviet.go, second half)                         *)
(***************************************************************************)
InitialMessage == "Initial barrel creation"

TransferRecord(from, to, message, t) ==
    [FromRole |-> from, ToRole |-> to, Message |-> message, Timestamp |-> t]

\* Mutant: the holder field is left at its zero value.
NewBarrelOfGun_Unowned(t) ==
    [currentHolder |-> "",
     lastMessage   |-> InitialMessage,
     transferTime  |-> t,
     history       |-> <<TransferRecord("", People, InitialMessage, t)>>]

NewBarrelOfGun(t) ==
    [currentHolder |-> People,
     lastMessage   |-> InitialMessage,
     transferTime  |-> t,
     history       |-> <<TransferRecord("", People, InitialMessage, t)>>]

\* fmt.Errorf texts that carry a role.
ErrSameRole(toRole) == "cannot transfer to same role: " \o toRole
ErrNotRegistered(role) == "agent with role '" \o role \o "' is not registered"
ErrAlreadyRegistered(role) == "agent with role '" \o role \o "' is already registered"
ErrNotFound(role) == "agent with role '" \o role \o "' not found"
ErrSelfYield(role) == "agent cannot yield to itself: " \o role
ErrNotHolder(holder, requester) ==
    "only current barrel holder can yield (current holder: " \o holder
    \o ", requester: " \o requester \o ")"
ErrTargetNotFound(role) == "target agent '" \o role \o "' not found"
ErrTargetNotConnected(role) == "target agent '" \o role \o "' is not connected"

CurrentHolder(b) == b.currentHolder
IsHeldBy(b, role) == b.currentHolder = role
LastMessage(b) == b.lastMessage

\* Mutant: the barrel's own transfer time is not updated.
TransferTo_StaleTime(b, toRole, message, t) ==
    IF toRole = "" THEN [err |-> "role cannot be empty", barrel |-> b]
    ELSE IF toRole = b.currentHolder
    THEN [err |-> ErrSameRole(toRole), barrel |-> b]
    ELSE [err |-> NoErr,
          barrel |-> [currentHolder |-> toRole,
                      lastMessage   |-> message,
                      transferTime  |-> b.transferTime,
                      history       |-> Append(b.history,
                                          TransferRecord(b.currentHolder, toRole, message, t))]]

\* Mutant: a transfer to the current holder is carried out.
TransferTo_ToSelf(b, toRole, message, t) ==
    IF toRole = "" THEN [err |-> "role cannot be empty", barrel |-> b]
    ELSE [err |-> NoErr,
          barrel |-> [currentHolder |-> toRole,
                      lastMessage   |-> message,
                      transferTime  |-> t,
                      history       |-> Append(b.history,
                                          TransferRecord(b.currentHolder, toRole, message, t))]]

\* Mutant: the message is stored before the checks.
TransferTo_StampsFirst(b, toRole, message, t) ==
    IF toRole = "" THEN [err |-> "role cannot be empty", barrel |-> b]
    ELSE IF toRole = b.currentHolder
    THEN [err |-> ErrSameRole(toRole),
          barrel |-> [b EXCEPT !.lastMessage = message]]
    ELSE [err |-> NoErr,
          barrel |-> [currentHolder |-> toRole,
                      lastMessage   |-> message,
                      transferTime  |-> t,
                      history       |-> Append(b.history,
                                          TransferRecord(b.currentHolder, toRole, message, t))]]

TransferTo(b, toRole, message, t) ==
    IF toRole = "" THEN [err |-> "role cannot be empty", barrel |-> b]
    ELSE IF toRole = b.currentHolder
    THEN [err |-> ErrSameRole(toRole), barrel |-> b]
    ELSE [err |-> NoErr,
          barrel |-> [currentHolder |-> toRole,
                      lastMessage   |-> message,
                      transferTime  |-> t,
                      history       |-> Append(b.history,
                                          TransferRecord(b.currentHolder, toRole, message, t))]]

(***************************************************************************)
(* SovietState: the registry part (pkg/domain/soviet.go)                   *)
(***************************************************************************)
EmptyMap == [x \in {} |-> NoAgent]   \* make(map[string]...)

\* The optional MessageSender dependency: nil, or a TCPMessageSender with
\* its own role -> connection map.
NoSender == [set |-> FALSE, connections |-> EmptyMap]
NewTCPMessageSender == [set |-> TRUE, connections |-> EmptyMap]

\* The optional AgentRepository dependency: nil, or a MemoryAgentRepository
\* with its own role -> record map.
NoRepo == [set |-> FALSE, agents |-> EmptyMap]
NewMemoryAgentRepository == [set |-> TRUE, agents |-> EmptyMap]

\* The barrel pointer of a coordinator that was given no barrel.  It has
\* none of a barrel's fields.
NilBarrel == [nil |-> TRUE]

\* The constructors leave the barrel nil; SetBarrel supplies it.
NewSovietState ==
    [agents |-> EmptyMap,             \* map[string]*AgentComrade
     heap   |-> <<>>,                 \* the records the pointers refer to
     barrel |-> NilBarrel,            \* barrel == nil
     repo   |-> NoRepo,               \* repo == nil
     sender |-> NoSender]             \* sender == nil

NewSovietStateWithDependencies(repo, sender) ==
    [NewSovietState EXCEPT !.repo = repo, !.sender = sender]

SetBarrel(s, barrel) ==
    IF barrel = NilBarrel THEN [err |-> "barrel cannot be nil", s |-> s]
    ELSE [err |-> NoErr, s |-> [s EXCEPT !.barrel = barrel]]

GetBarrel(s) == s.barrel

MapDelete(m, k) == [x \in (DOMAIN m) \ {k} |-> m[x]]
MapPut(m, k, v) == [x \in (DOMAIN m) \cup {k} |-> IF x = k THEN v ELSE m[x]]

IsAgentRegistered(s, role) == role \in DOMAIN s.agents
GetAgent(s, role) == IF role \in DOMAIN s.agents THEN s.agents[role] ELSE NoAgent
\* GetAgentRoles returns a slice in the order of Go's map iteration, which
\* is unspecified: the slice is kept as the bag of its elements (role -> times
\* listed).
GetAgentRoles(s) == [r \in DOMAIN s.agents |-> 1]
CurrentBarrelHolder(s) ==
    IF s.barrel = NilBarrel THEN "" ELSE CurrentHolder(s.barrel)
IsBarrelHeldBy(s, role) ==
    IF s.barrel = NilBarrel THEN FALSE ELSE IsHeldBy(s.barrel, role)
GetBarrelStatus(s) ==
    IF GetBarrel(s) = NilBarrel THEN People ELSE CurrentHolder(GetBarrel(s))

\* Mutant: removing one role empties the registry.
UnregisterAgent_All(s, role) ==
    IF role = "" THEN [err |-> "role cannot be empty", s |-> s]
    ELSE IF role \notin DOMAIN s.agents
    THEN [err |-> ErrNotRegistered(role), s |-> s]
    ELSE [err |-> NoErr, s |-> [s EXCEPT !.agents = EmptyMap]]

UnregisterAgent(s, role) ==
    IF role = "" THEN [err |-> "role cannot be empty", s |-> s]
    ELSE IF role \notin DOMAIN s.agents
    THEN [err |-> ErrNotRegistered(role), s |-> s]
    ELSE [err |-> NoErr, s |-> [s EXCEPT !.agents = MapDelete(@, role)]]

\* registerAgent: the internal insertion; p is the pointer of the record.
registerAgent(s, p) ==
    LET role == s.heap[p].role IN
    IF role = "" THEN [err |-> "agent role cannot be empty", s |-> s]
    ELSE IF role \in DOMAIN s.agents
    THEN [err |-> ErrAlreadyRegistered(role), s |-> s]
    ELSE [err |-> NoErr, s |-> [s EXCEPT !.agents = MapPut(@, role, p)]]

\* MemoryAgentRepository.Store and Delete, called when the repository is
\* not nil.
RepoStore(s, p) ==
    LET role == s.heap[p].role IN
    IF ~s.repo.set THEN [err |-> NoErr, s |-> s]
    ELSE IF role = "" THEN [err |-> "agent role cannot be empty", s |-> s]
    ELSE [err |-> NoErr, s |-> [s EXCEPT !.repo.agents = MapPut(@, role, p)]]

RepoDelete(s, role) ==
    IF ~s.repo.set THEN [err |-> NoErr, s |-> s]
    ELSE IF role \notin DOMAIN s.repo.agents
    THEN [err |-> ErrNotFound(role), s |-> s]
    ELSE [err |-> NoErr, s |-> [s EXCEPT !.repo.agents = MapDelete(@, role)]]

(***************************************************************************)
(* ProtocolValidator (pkg/domain/message_test.go, second half)             *)
(***************************************************************************)
\* domain.NewYieldMessage stamps the message with nowFunc(), so hasTimestamp
\* is TRUE for every message built by it; the zero value YieldMessage{} has
\* empty roles and no timestamp.
NewYieldMessage(fromRole, toRole, payload) ==
    [fromRole |-> fromRole, toRole |-> toRole, payload |-> payload, hasTimestamp |-> TRUE]

IsValid(m) == m.fromRole # "" /\ m.toRole # "" /\ m.hasTimestamp

\* Mutant: the self-yield check is missing.
ValidateYieldMessage_AllowsSelf(m) ==
    IF m.fromRole = "" THEN "from_role cannot be empty"
    ELSE IF m.toRole = "" THEN "to_role cannot be empty"
    ELSE IF ~IsValid(m) THEN "invalid yield message: missing required fields"
    ELSE NoErr

ValidateYieldMessage(m) ==
    IF m.fromRole = "" THEN "from_role cannot be empty"
    ELSE IF m.toRole = "" THEN "to_role cannot be empty"
    ELSE IF ~IsValid(m) THEN "invalid yield message: missing required fields"
    ELSE IF m.fromRole = m.toRole THEN ErrSelfYield(m.fromRole)
    ELSE NoErr

\* Mutant: the holder check is missing.
ValidateBarrelHolderRights_Lax(s, requesterRole) == NoErr

ValidateBarrelHolderRights(s, requesterRole) ==
    IF requesterRole = People THEN NoErr
    ELSE IF GetBarrel(s) = NilBarrel THEN "no barrel available in soviet"
    ELSE IF ~IsHeldBy(GetBarrel(s), requesterRole)
    THEN ErrNotHolder(CurrentHolder(GetBarrel(s)), requesterRole)
    ELSE NoErr

\* Mutant: the connectedness of the target is not checked.
ValidateTargetAgent_SkipsConnected(s, targetRole) ==
    IF targetRole = People THEN NoErr
    ELSE IF ~IsAgentRegistered(s, targetRole)
    THEN ErrTargetNotFound(targetRole)
    ELSE NoErr

ValidateTargetAgent(s, targetRole) ==
    IF targetRole = People THEN NoErr
    ELSE IF ~IsAgentRegistered(s, targetRole)
    THEN ErrTargetNotFound(targetRole)
    ELSE IF ~s.heap[GetAgent(s, targetRole)].connected
    THEN ErrTargetNotConnected(targetRole)
    ELSE NoErr

ValidateAgentStateConsistency(s, agentRole) ==
    IF GetAgent(s, agentRole) = NoAgent THEN "agent '" \o agentRole \o "' not found"
    ELSE IF GetBarrel(s) = NilBarrel THEN "no barrel available in soviet"
    ELSE LET hasBarrel == IsHeldBy(GetBarrel(s), agentRole)
             isWorking == s.heap[GetAgent(s, agentRole)].state = AgentStateWorking
         IN IF hasBarrel /\ ~isWorking
            THEN "agent state inconsistency: agent '" \o agentRole
                 \o "' has barrel but is waiting"
            ELSE IF ~hasBarrel /\ isWorking
            THEN "agent state inconsistency: agent '" \o agentRole
                 \o "' is working but doesn't have barrel"
            ELSE NoErr

ValidateYieldWorkflow(s, m) ==
    IF ValidateYieldMessage(m) # NoErr THEN ValidateYieldMessage(m)
    ELSE IF ValidateBarrelHolderRights(s, m.fromRole) # NoErr
    THEN ValidateBarrelHolderRights(s, m.fromRole)
    ELSE IF ValidateTargetAgent(s, m.toRole) # NoErr THEN ValidateTargetAgent(s, m.toRole)
    ELSE IF m.fromRole # People /\ ValidateAgentStateConsistency(s, m.fromRole) # NoErr
    THEN ValidateAgentStateConsistency(s, m.fromRole)
    ELSE NoErr

(***************************************************************************)
(* SovietState: the coordinator operations (pkg/domain/soviet.go)          *)
(* Each returns the error, the other results, and the state afterwards.    *)
(***************************************************************************)
DeregisterMessage(role) ==
    "Agent '" \o role \o "' deregistered, returning barrel to people"

\* Steps of RegisterAgent, in source order.
\* Mutant: the replaced record is not marked disconnected.
EvictExisting_KeepConnected(s, role) ==
    IF GetAgent(s, role) = NoAgent THEN [err |-> NoErr, s |-> s]
    ELSE UnregisterAgent(s, role)

EvictExisting(s, role) ==          \* lines 211-221
    LET existing == GetAgent(s, role) IN
    IF existing = NoAgent THEN [err |-> NoErr, s |-> s]
    ELSE UnregisterAgent([s EXCEPT !.heap[existing] = SetConnected(@, FALSE)], role)

ConnectAgent(s, p) ==              \* lines 251-252
    [s EXCEPT !.heap[p] = TransitionTo(SetConnected(@, TRUE), AgentStateWaiting).agent]

\* Mutant: the resuming record is reported but not moved to working.
ResumeIfHolder_StaysWaiting(s, p, role) ==
    IF GetBarrel(s) # NilBarrel /\ IsHeldBy(GetBarrel(s), role)
    THEN [err |-> NoErr, resume |-> TRUE, msg |-> LastMessage(s.barrel), s |-> s]
    ELSE [err |-> NoErr, resume |-> FALSE, msg |-> "", s |-> s]

\* Mutant: every registration resumes, whoever holds the barrel.
ResumeIfHolder_Always(s, p, role) ==
    [err |-> NoErr, resume |-> TRUE, msg |-> LastMessage(s.barrel),
     s |-> [s EXCEPT !.heap[p] = TransitionTo(@, AgentStateWorking).agent]]

ResumeIfHolder(s, p, role) ==      \* lines 255-265
    IF GetBarrel(s) # NilBarrel /\ IsHeldBy(GetBarrel(s), role)
    THEN [err |-> NoErr, resume |-> TRUE, msg |-> LastMessage(s.barrel),
          s |-> [s EXCEPT !.heap[p] = TransitionTo(@, AgentStateWorking).agent]]
    ELSE [err |-> NoErr, resume |-> FALSE, msg |-> "", s |-> s]

\* RegisterAgent(agent) where agent = NewAgentComrade(role, ...) is a fresh record.
\* A record whose registration fails is never reachable again; it is not kept.
RegisterAgent(s, role) ==
    LET p       == Len(s.heap) + 1
        alloc   == [s EXCEPT !.heap = Append(@, NewAgentComrade(role))]
        evicted == EvictExisting(alloc, role)
        inserted == registerAgent(evicted.s, p)
        stored  == RepoStore(inserted.s, p)
    IN IF evicted.err # NoErr
       THEN [err |-> "failed to unregister existing agent: " \o evicted.err, resume |-> FALSE, msg |-> "",
             s |-> [evicted.s EXCEPT !.heap = SubSeq(@, 1, p - 1)]]
       ELSE IF inserted.err # NoErr
       THEN [err |-> "failed to register agent: " \o inserted.err, resume |-> FALSE, msg |-> "",
             s |-> [inserted.s EXCEPT !.heap = SubSeq(@, 1, p - 1)]]
       ELSE IF stored.err # NoErr
       THEN [err |-> "failed to persist agent: " \o stored.err, resume |-> FALSE, msg |-> "",
             s |-> [UnregisterAgent(stored.s, role).s EXCEPT !.heap = SubSeq(@, 1, p - 1)]]
       ELSE ResumeIfHolder(ConnectAgent(stored.s, p), p, role)

\* Mutant: an unknown role is deregistered without complaint.
DeregisterAgent_IgnoresUnknown(s, role, t) ==
    IF ~IsAgentRegistered(s, role) THEN [err |-> NoErr, s |-> s]
    ELSE LET returned == IF IsBarrelHeldBy(s, role)
                         THEN [s EXCEPT !.barrel =
                                  TransferTo(@, People, DeregisterMessage(role), t).barrel]
                         ELSE s
             removed == UnregisterAgent(returned, role)
         IN IF removed.err # NoErr
            THEN [err |-> "failed to deregister agent: " \o removed.err, s |-> removed.s]
            ELSE [err |-> NoErr, s |-> RepoDelete(removed.s, role).s]

DeregisterAgent(s, role, t) ==
    IF ~IsAgentRegistered(s, role)
    THEN [err |-> ErrNotFound(role), s |-> s]
    ELSE LET returned == IF IsBarrelHeldBy(s, role)
                         THEN [s EXCEPT !.barrel =
                                  TransferTo(@, People, DeregisterMessage(role), t).barrel]
                         ELSE s
             removed == UnregisterAgent(returned, role)
         IN IF removed.err # NoErr
            THEN [err |-> "failed to deregister agent: " \o removed.err, s |-> removed.s]
            ELSE [err |-> NoErr, s |-> RepoDelete(removed.s, role).s]

\* Steps of ProcessYield after validation, in source order.
\* Mutant: the yielding record is left as it is.
YieldSource_Noop(s, fromRole) == s

YieldSource(s, fromRole) ==        \* lines 348-352
    LET sourceAgent == GetAgent(s, fromRole) IN
    IF sourceAgent = NoAgent THEN s
    ELSE [s EXCEPT !.heap[sourceAgent] = AgentYield(@).agent]

ProcessBarrelTransfer(s, fromRole, toRole, payload, t) ==   \* lines 165-171
    IF s.barrel = NilBarrel
    THEN [err |-> "no barrel available for transfer", s |-> s]
    ELSE LET r == TransferTo(s.barrel, toRole, payload, t) IN
         [err |-> r.err, s |-> [s EXCEPT !.barrel = r.barrel]]

\* Mutant: the target's record is left as it is.
ActivateTarget_Skip(s, toRole, payload) == s

ActivateTarget(s, toRole, payload) ==   \* lines 383-389
    LET targetAgent == GetAgent(s, toRole) IN
    IF toRole = People \/ targetAgent = NoAgent THEN s
    ELSE [s EXCEPT !.heap[targetAgent] = AgentActivate(@, payload).agent]

\* The messages on the wire (pkg/adapters/tcp/messages.go).
ActivateMessage(fromRole, payload) ==
    [Type |-> "ACTIVATE", FromRole |-> fromRole, Payload |-> payload]
ErrorMessage(message) == [Type |-> "ERROR", Message |-> message]
AckRegisterMessage(status, message) ==
    [Type |-> "ACK_REGISTER", Status |-> status, Message |-> message]

\* A write the coordinator or the server asks for: message msg to connection conn.
Write(conn, msg) == [conn |-> conn, msg |-> msg]

\* conn.Write fails on a connection the server has closed; on one whose peer
\* is gone it fails or is accepted by the operating system and lost.  The
\* text of the error is the operating system's.
ErrWrite == "write: broken pipe"
WriteOutcomes(cs, conn) ==
    IF cs[conn] = "open" THEN {NoErr}
    ELSE IF cs[conn] = "closed" THEN {NoErr, ErrWrite}
    ELSE {ErrWrite}

\* TCPMessageSender.SendActivation: an error when the sender knows no
\* connection of the role, else one ACTIVATE (with no from_role) written to
\* that connection, and an error when that write fails (werr).  out is the
\* write attempted.
SendActivation(sender, role, payload, werr) ==
    IF role \notin DOMAIN sender.connections
    THEN [err |-> "no connection found for role: " \o role, out |-> <<>>]
    ELSE [err |-> IF werr = NoErr THEN NoErr
                  ELSE "failed to send activation message: " \o werr,
          out |-> <<Write(sender.connections[role], ActivateMessage("", payload))>>]

NotifyTarget(s, toRole, payload, werr) ==      \* lines 362-372
    IF toRole # People /\ s.sender.set
    THEN SendActivation(s.sender, toRole, payload, werr)
    ELSE [err |-> NoErr, out |-> <<>>]

\* The error of SendActivation is logged and dropped, so the outcome of its
\* write makes no difference here.  out is the write the sender attempted.
ProcessYield(s, m, t) ==
    LET verr == ValidateYieldWorkflow(s, m)
        yielded == YieldSource(s, m.fromRole)
        moved == ProcessBarrelTransfer(yielded, m.fromRole, m.toRole, m.payload, t)
        sent == NotifyTarget(moved.s, m.toRole, m.payload, NoErr)
    IN IF verr # NoErr THEN [err |-> verr, s |-> s, out |-> <<>>]
       ELSE IF moved.err # NoErr THEN [err |-> moved.err, s |-> moved.s, out |-> <<>>]
       ELSE [err |-> NoErr, s |-> ActivateTarget(moved.s, m.toRole, m.payload),
             out |-> sent.out]

QueryStatus(s) ==
    [BarrelHolder     |-> GetBarrelStatus(s),
     RegisteredAgents |-> GetAgentRoles(s),
     AgentStates      |-> [r \in DOMAIN s.agents |-> s.heap[s.agents[r]].state],
     ConnectedAgents  |-> [r \in DOMAIN s.agents |-> s.heap[s.agents[r]].connected]]

(***************************************************************************)
(* Specification Spec: the coordinator driven through its service          *)
(* interface (SovietService), one call at a time, as the domain tests do.  *)
(* `ret` keeps what the last call was and what it returned.                *)
(***************************************************************************)
NoCall == [op |-> "none", err |-> NoErr, resume |-> FALSE, msg |-> ""]

\* A line as the server's scanner and json.Unmarshal calls see it.  Blank:
\* the line is empty once strings.TrimSpace has trimmed it.  TooLong:
\* the line is longer than the scanner's buffer (bufio.MaxScanTokenSize, 64
\* KiB), so that scanner.Scan() returns false with bufio.ErrTooLong.  Valid: the line is a
\* JSON object whose "type" is a string (Unmarshal into TCPMessage succeeds).
\* Typed: its other fields have the JSON types of the handler's message
\* struct (Unmarshal into RegisterMessage or YieldMessage succeeds).
TCPMessage(type, role, fromRole, toRole, payload) ==
    [Valid |-> TRUE, Typed |-> TRUE, TooLong |-> FALSE, Blank |-> FALSE,
     Type |-> type, Role |-> role,
     FromRole |-> fromRole, ToRole |-> toRole, Payload |-> payload]
InvalidJSON == [TCPMessage("", "", "", "", "") EXCEPT !.Valid = FALSE]
Mistyped(type) == [TCPMessage(type, "", "", "", "") EXCEPT !.Typed = FALSE]
OversizeLine == [TCPMessage("", "", "", "", "") EXCEPT !.TooLong = TRUE]
BlankLine == [TCPMessage("", "", "", "", "") EXCEPT !.Blank = TRUE]

\* The locals of a goroutine between two lines.
NoRecord == [nil |-> TRUE]
NoLocals ==
    [f |-> TCPMessage("", "", "", "", ""),   \* msg
     agent |-> NoAgent,                      \* RegisterAgent: agent
     other |-> NoAgent,                      \* existingAgent, sourceAgent, targetAgent
     err |-> NoErr,
     shouldActivate |-> FALSE, payload |-> "",
     hasBarrel |-> FALSE,
     record |-> NoRecord, history |-> <<>>,  \* TransferTo: record, append's operand
     targetConn |-> NoConn,
     todo |-> EmptyMap, seen |-> EmptyMap,   \* a range loop: the map at its start,
     role |-> "",                            \*   the entries produced, the current one
     agentStates |-> EmptyMap, connectedAgents |-> EmptyMap,
     holder |-> "", roles |-> EmptyMap, details |-> EmptyMap,
     wrote |-> FALSE]    \* history: the line's handling has changed shared state

\* The server as NewTCPServer returns it: no listener, no connection, no
\* goroutine.
NoAcceptors == [current |-> 0, stale |-> 0]
TcpIdle ==
    /\ connState = [c \in Conns |-> "free"]
    /\ connections = EmptyMap
    /\ pc = [c \in Conns |-> "read"]
    /\ cmd = [c \in Conns |-> NoLocals]
    /\ issued = <<>>
    /\ wire = [c \in Conns |-> <<>>]
    /\ inbox = [c \in Conns |-> <<>>]
    /\ listener = "nil"
    /\ acceptors = NoAcceptors
    /\ ended = NoErr

\* The coordinator as cmd/server/main.go builds it: a repository, a new
\* barrel handed over with SetBarrel, no sender, at time t.
MainSoviet(t) ==
    SetBarrel(NewSovietStateWithDependencies(NewMemoryAgentRepository, NoSender),
              NewBarrelOfGun(t)).s

Init ==
    /\ soviet = MainSoviet(0)
    /\ ret = NoCall
    /\ TcpIdle

TcpUnchanged ==
    UNCHANGED <<connState, connections, pc, cmd, issued, wire, inbox, listener,
                acceptors, ended>>

Transfers(s) == IF s.barrel = NilBarrel THEN 0 ELSE Len(s.barrel.history) - 1

\* nowFunc() is time.Now(): it never runs backwards.  A call that reads it
\* reads the time of the last transfer again or a later time.  Times are
\* only stored and compared, so the next instant stands for every later one.
MaxTime == 2
LastTransferTime(s) == IF s.barrel = NilBarrel THEN 0 ELSE s.barrel.transferTime
Clock(s) == {t \in LastTransferTime(s) .. MaxTime : t <= LastTransferTime(s) + 1}

\* The calls that get as far as reading the clock: DeregisterAgent of the
\* holder, ProcessYield of a message that passes validation.
DeregisterClock(s, role) ==
    IF IsAgentRegistered(s, role) /\ IsBarrelHeldBy(s, role)
    THEN Clock(s) ELSE {LastTransferTime(s)}
YieldClock(s, fromRole, toRole) ==
    IF ValidateYieldWorkflow(s, NewYieldMessage(fromRole, toRole, "")) = NoErr
    THEN Clock(s) ELSE {LastTransferTime(s)}

CallRegisterAgent(role) ==
    LET r == RegisterAgent(soviet, role) IN
    /\ Len(soviet.heap) < MaxAgents
    /\ soviet' = r.s
    /\ ret' = [op |-> "RegisterAgent", err |-> r.err, resume |-> r.resume, msg |-> r.msg]
    /\ TcpUnchanged

CallDeregisterAgent(role) ==
    \E t \in DeregisterClock(soviet, role) :
        LET r == DeregisterAgent(soviet, role, t) IN
        /\ Transfers(r.s) <= MaxTransfers
        /\ soviet' = r.s
        /\ ret' = [NoCall EXCEPT !.op = "DeregisterAgent", !.err = r.err]
        /\ TcpUnchanged

\* Validation reads neither the payload nor the clock, so a rejected frame
\* has one outcome whatever they are.
CallProcessYield(fromRole, toRole) ==
    \E payload \in IF ValidateYieldWorkflow(soviet, NewYieldMessage(fromRole, toRole, "")) = NoErr
                   THEN Payloads ELSE {"p1"} :
    \E t \in YieldClock(soviet, fromRole, toRole) :
        LET r == ProcessYield(soviet, NewYieldMessage(fromRole, toRole, payload), t) IN
        /\ Transfers(r.s) <= MaxTransfers
        /\ soviet' = r.s
        /\ ret' = [NoCall EXCEPT !.op = "ProcessYield", !.err = r.err]
        /\ TcpUnchanged

CallQueryStatus ==
    /\ ret' = [NoCall EXCEPT !.op = "QueryStatus", !.msg = QueryStatus(soviet).BarrelHolder]
    /\ UNCHANGED soviet
    /\ TcpUnchanged

Next ==
    \/ \E role \in Roles : CallRegisterAgent(role)
    \/ \E role \in Roles : CallDeregisterAgent(role)
    \/ \E fromRole \in Roles, toRole \in Roles : CallProcessYield(fromRole, toRole)
    \/ CallQueryStatus

Spec == Init /\ [][Next]_vars

(***************************************************************************)
(* Specification SpecBare: the same calls on a coordinator fresh from one  *)
(* of its constructors, which has no barrel until SetBarrel is called (as  *)
(* the domain tests build it).                                             *)
(***************************************************************************)
BareInit ==
    /\ soviet \in {NewSovietState,
                   NewSovietStateWithDependencies(NewMemoryAgentRepository, NoSender)}
    /\ ret = NoCall
    /\ TcpIdle

CallSetBarrel(barrel) ==
    LET r == SetBarrel(soviet, barrel) IN
    /\ soviet' = r.s
    /\ ret' = [NoCall EXCEPT !.op = "SetBarrel", !.err = r.err]
    /\ TcpUnchanged

NextBare ==
    \/ \E barrel \in {NilBarrel, NewBarrelOfGun(0)} : CallSetBarrel(barrel)
    \/ Next

SpecBare == BareInit /\ [][NextBare]_vars

(***************************************************************************)
(* Specification SpecClock: the coordinator's calls under a clock that can *)
(* be told apart between calls.  Every call that reads nowFunc() reads a   *)
(* time not before the last one read (the last transfer's, or the          *)
(* construction's).                                                        *)
(***************************************************************************)
ClockRoles == {People, "developer"}

ClockRegisterAgent(role) ==
    LET r == RegisterAgent(soviet, role) IN
    /\ Len(soviet.heap) < MaxAgents
    /\ soviet' = r.s
    /\ ret' = [op |-> "RegisterAgent", err |-> r.err, resume |-> r.resume, msg |-> r.msg]
    /\ TcpUnchanged

ClockDeregisterAgent(role) ==
    \E t \in DeregisterClock(soviet, role) :
        LET r == DeregisterAgent(soviet, role, t) IN
        /\ Transfers(r.s) <= MaxTransfers
        /\ soviet' = r.s
        /\ ret' = [NoCall EXCEPT !.op = "DeregisterAgent", !.err = r.err]
        /\ TcpUnchanged

ClockProcessYield(fromRole, toRole) ==
    \E payload \in WirePayloads, t \in YieldClock(soviet, fromRole, toRole) :
        LET r == ProcessYield(soviet, NewYieldMessage(fromRole, toRole, payload), t) IN
        /\ Transfers(r.s) <= MaxTransfers
        /\ soviet' = r.s
        /\ ret' = [NoCall EXCEPT !.op = "ProcessYield", !.err = r.err]
        /\ TcpUnchanged

NextClock ==
    \/ \E role \in ClockRoles : ClockRegisterAgent(role)
    \/ \E role \in ClockRoles : ClockDeregisterAgent(role)
    \/ \E fromRole \in ClockRoles, toRole \in ClockRoles : ClockProcessYield(fromRole, toRole)

SpecClock == Init /\ [][NextClock]_vars

(***************************************************************************)
(* TCPServer (pkg/adapters/tcp/server.go).  acceptConnections starts one   *)
(* handleConnection goroutine per accepted connection; the goroutine reads *)
(* its stream line by line and handles each line in processMessage before  *)
(* it reads the next.  TCPServer.connections is guarded by TCPServer.mu,   *)
(* the repository and the sender by their own locks; SovietState,          *)
(* BarrelOfGun and AgentComrade hold no lock, so between two accesses of   *)
(* theirs made by one goroutine the other goroutines run.  A statement     *)
(* below is one such access together with the goroutine's own computation  *)
(* up to the next one.  It maps the shared state st = [s, conns, cs, w]    *)
(* (coordinator, bindings, connection states, bytes written) and the       *)
(* goroutine's locals l to the state after it, the new locals and the      *)
(* label of the goroutine's next statement.  An AgentComrade method is     *)
(* taken as one access of its record.                                      *)
(***************************************************************************)
\* A write reaches the peer only while the connection is open; a failed
\* write is logged and nothing else (sendMessage, SendActivation's caller).
RECURSIVE Deliver(_, _, _)
Deliver(w, cs, out) ==
    IF out = <<>> THEN w
    ELSE LET o == Head(out)
             w1 == IF cs[o.conn] = "open"
                   THEN [w EXCEPT ![o.conn] = Append(@, o.msg)] ELSE w
         IN Deliver(w1, cs, Tail(out))

BoundConn(conns, role) == IF role \in DOMAIN conns THEN conns[role] ELSE NoConn

Go(st, l, label) == [st |-> st, l |-> l, pc |-> label]
Fail(st, l, err) == Go(st, [l EXCEPT !.err = err], "send_error")
Finish(st) == Go(st, NoLocals, "read")
Send(st, conn, msg) == [st EXCEPT !.w = Deliver(@, st.cs, <<Write(conn, msg)>>)]

\* What handleConnection does to the coordinator when the scanner loop ends
\* (EOF or read error): the deferred conn.Close() runs and nothing else; the
\* connections map and the coordinator are not touched.
\* Mutant: the end of a connection deregisters the roles bound to it.
handleConnectionExit_Deregisters(s, conns, c) ==
    IF \E r \in DOMAIN conns : conns[r] = c /\ IsAgentRegistered(s, r)
    THEN LET r == CHOOSE r \in DOMAIN conns : conns[r] = c /\ IsAgentRegistered(s, r)
         IN DeregisterAgent(s, r, s.barrel.transferTime).s
    ELSE s

\* Mutant: the end of any connection deregisters the barrel's holder.
handleConnectionExit_DeregistersHolder(s, conns, c) ==
    IF IsAgentRegistered(s, s.barrel.currentHolder)
    THEN DeregisterAgent(s, s.barrel.currentHolder, s.barrel.transferTime).s
    ELSE s

handleConnectionExit(s, conns, c) == s

\* processMessage and the head of the handler it calls, up to the handler's
\* first access of shared state: the label to go to, or the error to send.
processMessage(f) ==
    IF ~f.Valid THEN [pc |-> "send_error", err |-> "Invalid JSON format"]
    ELSE IF f.Type = "REGISTER"
    THEN IF ~f.Typed
         THEN [pc |-> "send_error", err |-> "Invalid REGISTER message format"]
         ELSE IF f.Role = ""
         THEN [pc |-> "send_error", err |-> "Role is required for registration"]
         ELSE [pc |-> "reg_bind", err |-> NoErr]
    ELSE IF f.Type = "YIELD"
    THEN IF ~f.Typed
         THEN [pc |-> "send_error", err |-> "Invalid YIELD message format"]
         ELSE IF f.FromRole = "" \/ f.ToRole = ""
         THEN [pc |-> "send_error", err |-> "FromRole and ToRole are required for yield"]
         ELSE LET verr == ValidateYieldMessage(
                              NewYieldMessage(f.FromRole, f.ToRole, f.Payload))
              IN IF verr # NoErr THEN [pc |-> "send_error", err |-> verr]
                 ELSE [pc |-> "val_rights", err |-> NoErr]
    ELSE IF f.Type = "QUERY_AGENTS" THEN [pc |-> "qa_read", err |-> NoErr]
    ELSE IF f.Type = "QUERY_STATUS" THEN [pc |-> "qs_range", err |-> NoErr]
    ELSE [pc |-> "send_error", err |-> "Unknown message type: " \o f.Type]

\* sendError.
sendError(st, l, c) == Finish(Send(st, c, ErrorMessage(l.err)))

(***************************************************************************)
(* REGISTER: handleRegisterMessage, HandleRegister, SovietState            *)
(* .RegisterAgent with UnregisterAgent and registerAgent inlined.          *)
(***************************************************************************)
\* s.connections[msg.Role] = conn under s.mu; NewAgentComrade.
bindConnection(st, l, c) ==
    Go([st EXCEPT !.conns = MapPut(@, l.f.Role, c),
                  !.s.heap = Append(@, NewAgentComrade(l.f.Role))],
       [l EXCEPT !.agent = Len(st.s.heap) + 1], "reg_get")

\* existingAgent := s.GetAgent(role)
getExisting(st, l) ==
    LET existingAgent == GetAgent(st.s, l.f.Role) IN
    IF existingAgent = NoAgent THEN Go(st, l, "reg_check")
    ELSE Go(st, [l EXCEPT !.other = existingAgent], "reg_disconnect")

\* existingAgent.SetConnected(false)
disconnectExisting(st, l) ==
    Go([st EXCEPT !.s.heap[l.other] = SetConnected(@, FALSE)], l, "unreg_check")

\* UnregisterAgent: the lookup.
unregisterLookup(st, l) ==
    IF ~IsAgentRegistered(st.s, l.f.Role)
    THEN Fail(st, l, "failed to unregister existing agent: " \o ErrNotRegistered(l.f.Role))
    ELSE Go(st, l, "unreg_delete")

\* UnregisterAgent: delete(s.agents, role).
unregisterDelete(st, l) ==
    Go([st EXCEPT !.s.agents = MapDelete(@, l.f.Role)], l, "reg_check")

\* registerAgent: the lookup.
registerLookup(st, l) ==
    IF IsAgentRegistered(st.s, l.f.Role)
    THEN Fail(st, l, "failed to register agent: " \o ErrAlreadyRegistered(l.f.Role))
    ELSE Go(st, l, "reg_put")

\* registerAgent: s.agents[role] = agent.
registerPut(st, l) ==
    Go([st EXCEPT !.s.agents = MapPut(@, l.f.Role, l.agent)], l, "reg_store")

\* s.repo.Store(agent), with the rollback when it fails.
storeAgent(st, l) ==
    LET r == RepoStore(st.s, l.agent) IN
    IF r.err # NoErr
    THEN Fail([st EXCEPT !.s = UnregisterAgent(r.s, l.f.Role).s], l,
              "failed to persist agent: " \o r.err)
    ELSE Go([st EXCEPT !.s = r.s], l, "reg_connect")

\* agent.SetConnected(true)
connectAgent(st, l) ==
    Go([st EXCEPT !.s.heap[l.agent] = SetConnected(@, TRUE)], l, "reg_waiting")

\* agent.TransitionTo(AgentStateWaiting)
transitionToWaiting(st, l) ==
    Go([st EXCEPT !.s.heap[l.agent] = TransitionTo(@, AgentStateWaiting).agent],
       l, "reg_holder")

\* barrel != nil && barrel.IsHeldBy(role)
checkHolder(st, l) ==
    IF GetBarrel(st.s) # NilBarrel /\ IsHeldBy(GetBarrel(st.s), l.f.Role)
    THEN Go(st, l, "reg_message")
    ELSE Go(st, [l EXCEPT !.shouldActivate = FALSE, !.payload = ""], "reg_ack")

\* lastMessage := barrel.LastMessage()
readLastMessage(st, l) ==
    Go(st, [l EXCEPT !.payload = LastMessage(GetBarrel(st.s))], "reg_working")

\* agent.TransitionTo(AgentStateWorking); return true, lastMessage, nil
transitionToWorking(st, l) ==
    Go([st EXCEPT !.s.heap[l.agent] = TransitionTo(@, AgentStateWorking).agent],
       [l EXCEPT !.shouldActivate = TRUE], "reg_ack")

EnlistedMessage(role) == "Comrade '" \o role \o "' successfully enlisted in the collective."

\* s.sendMessage(conn, ackMsg)
sendAck(st, l, c) ==
    LET st1 == Send(st, c, AckRegisterMessage("success", EnlistedMessage(l.f.Role))) IN
    IF l.shouldActivate THEN Go(st1, l, "reg_activate") ELSE Finish(st1)

\* s.sendMessage(conn, activateMsg)
sendResume(st, l, c) == Finish(Send(st, c, ActivateMessage("soviet", l.payload)))

(***************************************************************************)
(* YIELD: handleYieldMessage, HandleYield, SovietState.ProcessYield with   *)
(* ProtocolValidator.ValidateYieldWorkflow, ProcessBarrelTransfer and      *)
(* BarrelOfGun.TransferTo inlined.                                         *)
(***************************************************************************)
\* ValidateBarrelHolderRights: up to barrel.IsHeldBy(requesterRole).
checkRights(st, l) ==
    IF l.f.FromRole = People THEN Go(st, l, "val_target")
    ELSE IF GetBarrel(st.s) = NilBarrel THEN Fail(st, l, "no barrel available in soviet")
    ELSE IF ~IsHeldBy(GetBarrel(st.s), l.f.FromRole) THEN Go(st, l, "val_rights_error")
    ELSE Go(st, l, "val_target")

\* ValidateBarrelHolderRights: the error, with barrel.CurrentHolder() read again.
rightsError(st, l) ==
    Fail(st, l, ErrNotHolder(CurrentHolder(GetBarrel(st.s)), l.f.FromRole))

\* Where validation goes after the target: the consistency check of the
\* source (not for people), then ProcessYield proper.
AfterTarget(l) == IF l.f.FromRole # People THEN "val_source" ELSE "yield_source"

\* ValidateTargetAgent: s.IsAgentRegistered(targetRole).
checkTargetRegistered(st, l) ==
    IF l.f.ToRole = People THEN Go(st, l, AfterTarget(l))
    ELSE IF ~IsAgentRegistered(st.s, l.f.ToRole)
    THEN Fail(st, l, ErrTargetNotFound(l.f.ToRole))
    ELSE Go(st, l, "val_target_get")

\* ValidateTargetAgent: agent := s.GetAgent(targetRole).
getTarget(st, l) ==
    LET agent == GetAgent(st.s, l.f.ToRole) IN
    IF agent = NoAgent THEN Go(st, l, AfterTarget(l))
    ELSE Go(st, [l EXCEPT !.other = agent], "val_target_connected")

\* ValidateTargetAgent: agent.IsConnected().
checkTargetConnected(st, l) ==
    IF ~st.s.heap[l.other].connected
    THEN Fail(st, l, ErrTargetNotConnected(l.f.ToRole))
    ELSE Go(st, l, AfterTarget(l))

\* ValidateAgentStateConsistency: agent := s.GetAgent(agentRole).
getSourceToCheck(st, l) ==
    LET agent == GetAgent(st.s, l.f.FromRole) IN
    IF agent = NoAgent THEN Fail(st, l, "agent '" \o l.f.FromRole \o "' not found")
    ELSE Go(st, [l EXCEPT !.other = agent], "val_source_barrel")

\* ValidateAgentStateConsistency: hasBarrel := barrel.IsHeldBy(agentRole).
readHasBarrel(st, l) ==
    IF GetBarrel(st.s) = NilBarrel THEN Fail(st, l, "no barrel available in soviet")
    ELSE Go(st, [l EXCEPT !.hasBarrel = IsHeldBy(GetBarrel(st.s), l.f.FromRole)],
            "val_source_state")

\* ValidateAgentStateConsistency: isWorking := agent.State() == AgentStateWorking.
checkConsistency(st, l) ==
    LET isWorking == st.s.heap[l.other].state = AgentStateWorking IN
    IF l.hasBarrel /\ ~isWorking
    THEN Fail(st, l, "agent state inconsistency: agent '" \o l.f.FromRole
                     \o "' has barrel but is waiting")
    ELSE IF ~l.hasBarrel /\ isWorking
    THEN Fail(st, l, "agent state inconsistency: agent '" \o l.f.FromRole
                     \o "' is working but doesn't have barrel")
    ELSE Go(st, l, "yield_source")

\* sourceAgent := s.GetAgent(fromRole)
getSource(st, l) ==
    LET sourceAgent == GetAgent(st.s, l.f.FromRole) IN
    IF sourceAgent = NoAgent THEN Go(st, l, "xfer_check")
    ELSE Go(st, [l EXCEPT !.other = sourceAgent], "yield_source_yield")

\* sourceAgent.Yield()
yieldSource(st, l) ==
    Go([st EXCEPT !.s.heap[l.other] = AgentYield(@).agent], l, "xfer_check")

\* ProcessBarrelTransfer and TransferTo: the checks.
transferCheck(st, l) ==
    IF GetBarrel(st.s) = NilBarrel THEN Fail(st, l, "no barrel available for transfer")
    ELSE IF l.f.ToRole = "" THEN Fail(st, l, "role cannot be empty")
    ELSE IF l.f.ToRole = st.s.barrel.currentHolder THEN Fail(st, l, ErrSameRole(l.f.ToRole))
    ELSE Go(st, l, "xfer_record")

\* TransferTo: now := nowFunc(); record := TransferRecord{FromRole: b.currentHolder, ...}
transferRecord(st, l, t) ==
    Go(st, [l EXCEPT !.record = TransferRecord(st.s.barrel.currentHolder, l.f.ToRole,
                                               l.f.Payload, t)], "xfer_holder")

\* TransferTo: b.currentHolder = toRole
transferHolder(st, l) ==
    Go([st EXCEPT !.s.barrel.currentHolder = l.f.ToRole], l, "xfer_message")

\* TransferTo: b.lastMessage = message
transferMessage(st, l) ==
    Go([st EXCEPT !.s.barrel.lastMessage = l.f.Payload], l, "xfer_time")

\* TransferTo: b.transferTime = now
transferTime(st, l) ==
    Go([st EXCEPT !.s.barrel.transferTime = l.record.Timestamp], l, "xfer_append_read")

\* TransferTo: append(b.history, record), the read of b.history.
transferAppendRead(st, l) ==
    Go(st, [l EXCEPT !.history = st.s.barrel.history], "xfer_append")

\* TransferTo: b.history = append(...), the write.
transferAppend(st, l) ==
    Go([st EXCEPT !.s.barrel.history = Append(l.history, l.record)],
       [l EXCEPT !.history = <<>>], "yield_notify")

\* Mutant: a notification that cannot be sent fails the yield.
notifyLookup_RollsBack(st, l) ==
    IF l.f.ToRole = People \/ ~st.s.sender.set THEN Go(st, l, "yield_target")
    ELSE IF l.f.ToRole \notin DOMAIN st.s.sender.connections
    THEN Fail(st, l, "no connection found for role: " \o l.f.ToRole)
    ELSE Go(st, [l EXCEPT !.targetConn = st.s.sender.connections[l.f.ToRole]],
            "notify_write")

\* toRole != "people" && s.sender != nil, then SendActivation: the lookup
\* conn, exists := s.connections[role] under the sender's lock.  The error
\* is logged and dropped.
notifyLookup(st, l) ==
    IF l.f.ToRole = People \/ ~st.s.sender.set THEN Go(st, l, "yield_target")
    ELSE IF l.f.ToRole \notin DOMAIN st.s.sender.connections THEN Go(st, l, "yield_target")
    ELSE Go(st, [l EXCEPT !.targetConn = st.s.sender.connections[l.f.ToRole]],
            "notify_write")

\* SendActivation: conn.Write(data), after the lock is released.  The error
\* of a failed write is logged and dropped.
notifyWrite(st, l) ==
    Go(Send(st, l.targetConn, ActivateMessage("", l.f.Payload)),
       [l EXCEPT !.targetConn = NoConn], "yield_target")

\* targetAgent := s.GetAgent(toRole), when toRole is not people.
getTargetToActivate(st, l) ==
    LET targetAgent == GetAgent(st.s, l.f.ToRole) IN
    IF l.f.ToRole = People THEN Finish(st)
    ELSE IF targetAgent = NoAgent THEN Go(st, l, "yield_lookup")
    ELSE Go(st, [l EXCEPT !.other = targetAgent], "yield_activate")

\* targetAgent.Activate(payload)
activateTarget(st, l) ==
    Go([st EXCEPT !.s.heap[l.other] = AgentActivate(@, l.f.Payload).agent],
       l, "yield_lookup")

\* targetConn, exists := s.connections[msg.ToRole] under s.mu.
lookupConnection(st, l) ==
    IF l.f.ToRole \notin DOMAIN st.conns THEN Finish(st)
    ELSE Go(st, [l EXCEPT !.targetConn = st.conns[l.f.ToRole]], "yield_write")

\* s.sendMessage(targetConn, activateMsg)
sendActivate(st, l) ==
    Finish(Send(st, l.targetConn, ActivateMessage(l.f.FromRole, l.f.Payload)))

(***************************************************************************)
(* QUERY_STATUS (handleQueryStatusMessage, SovietState.QueryStatus) and    *)
(* QUERY_AGENTS (handleQueryAgentsMessage).                                *)
(***************************************************************************)
StatusMessage(status) ==
    [Type |-> "STATUS", BarrelHolder |-> status.BarrelHolder,
     RegisteredAgents |-> status.RegisteredAgents,
     AgentStates |-> status.AgentStates, ConnectedAgents |-> status.ConnectedAgents]
AgentDetailsMessage(details) == [Type |-> "AGENT_DETAILS", AgentDetails |-> details]

\* AgentService.GetAgentDetails: one entry per registered agent.
GetAgentDetails(s) ==
    [r \in DOMAIN s.agents |->
        [Role |-> r, State |-> s.heap[s.agents[r]].state,
         Connected |-> s.heap[s.agents[r]].connected]]

\* for ... := range s.agents: the iteration starts.  l.todo keeps the map as
\* it was then, l.seen the entries produced so far.
rangeAgents(st, l, label) ==
    Go(st, [l EXCEPT !.todo = st.s.agents, !.seen = EmptyMap], label)

\* The entries the iteration must still produce: those the map had when the
\* iteration started, still has, and has not produced.  An entry put into the
\* map since the iteration started may be produced or skipped; an entry
\* removed before it was reached is not produced.
Pending(s, l) ==
    {r \in (DOMAIN l.todo \cap DOMAIN s.agents) \ DOMAIN l.seen : s.agents[r] = l.todo[r]}
Created(s, l) ==
    {r \in DOMAIN s.agents :
        /\ r \in DOMAIN l.todo => s.agents[r] # l.todo[r]
        /\ r \in DOMAIN l.seen => s.agents[r] # l.seen[r]}
NoEntry == ""        \* the iteration produces no further entry

\* for role, agent := range s.agents (QueryStatus): the next entry, or the end.
nextAgent(st, l, role) ==
    IF role = NoEntry THEN Go(st, [l EXCEPT !.todo = EmptyMap, !.seen = EmptyMap], "qs_holder")
    ELSE Go(st, [l EXCEPT !.other = st.s.agents[role], !.role = role,
                          !.seen = MapPut(@, role, st.s.agents[role])], "qs_agent_state")

\* agentStates[role] = agent.State()
readAgentState(st, l) ==
    Go(st, [l EXCEPT !.agentStates = MapPut(@, l.role, st.s.heap[l.other].state)],
       "qs_agent_connected")

\* connectedAgents[role] = agent.IsConnected()
readAgentConnected(st, l) ==
    Go(st, [l EXCEPT !.connectedAgents = MapPut(@, l.role, st.s.heap[l.other].connected)],
       "qs_next")

\* Mutant: the holder is reported as if there were no barrel.
readHolder_NoBarrel(st, l) == Go(st, [l EXCEPT !.holder = People], "qs_roles")

\* BarrelHolder: s.GetBarrelStatus()
readHolder(st, l) == Go(st, [l EXCEPT !.holder = GetBarrelStatus(st.s)], "qs_roles")

\* GetAgentRoles: for role := range s.agents { roles = append(roles, role) },
\* the next entry or the end.
nextRole(st, l, role) ==
    IF role = NoEntry THEN Go(st, [l EXCEPT !.todo = EmptyMap, !.seen = EmptyMap], "qs_write")
    ELSE Go(st, [l EXCEPT !.seen = MapPut(@, role, st.s.agents[role]),
                          !.roles = MapPut(@, role, IF role \in DOMAIN @ THEN @[role] + 1
                                                    ELSE 1)],
            "qs_roles_next")

\* s.sendMessage(conn, response)
sendStatus(st, l, c) ==
    Finish(Send(st, c, StatusMessage([BarrelHolder     |-> l.holder,
                                      RegisteredAgents |-> l.roles,
                                      AgentStates      |-> l.agentStates,
                                      ConnectedAgents  |-> l.connectedAgents])))

\* details := s.agentService.GetAgentDetails()
readDetails(st, l) == Go(st, [l EXCEPT !.details = GetAgentDetails(st.s)], "qa_write")

\* s.sendMessage(conn, response)
sendDetails(st, l, c) == Finish(Send(st, c, AgentDetailsMessage(l.details)))

(***************************************************************************)
(* The goroutine of connection c at label pcv: its next statement.  t is   *)
(* the time nowFunc() returns if the statement reads it, role the entry    *)
(* the range loop visits next if the statement is the loop body.           *)
(***************************************************************************)
RegisterAgentLabels ==
    {"reg_get", "reg_disconnect", "unreg_check", "unreg_delete", "reg_check", "reg_put",
     "reg_store", "reg_connect", "reg_waiting", "reg_holder", "reg_message", "reg_working"}
ValidateLabels ==
    {"val_rights", "val_rights_error", "val_target", "val_target_get",
     "val_target_connected", "val_source", "val_source_barrel", "val_source_state"}
TransferToLabels ==
    {"xfer_check", "xfer_record", "xfer_holder", "xfer_message", "xfer_time",
     "xfer_append_read", "xfer_append"}
ProcessYieldLabels ==
    {"yield_source", "yield_source_yield", "yield_notify", "yield_target", "yield_activate"}
SendActivationLabels == {"notify_write"}
QueryStatusLabels ==
    {"qs_range", "qs_next", "qs_agent_state", "qs_agent_connected", "qs_holder", "qs_roles",
     "qs_roles_next"}
RegisterHandlerLabels == {"reg_bind", "reg_ack", "reg_activate"}
YieldHandlerLabels == {"yield_lookup", "yield_write"}
QueryHandlerLabels == {"qs_write", "qa_read", "qa_write"}

Statement(st, l, pcv, c, t, role) ==
    CASE pcv = "send_error"           -> sendError(st, l, c)
      [] pcv = "reg_bind"             -> bindConnection(st, l, c)
      [] pcv = "reg_get"              -> getExisting(st, l)
      [] pcv = "reg_disconnect"       -> disconnectExisting(st, l)
      [] pcv = "unreg_check"          -> unregisterLookup(st, l)
      [] pcv = "unreg_delete"         -> unregisterDelete(st, l)
      [] pcv = "reg_check"            -> registerLookup(st, l)
      [] pcv = "reg_put"              -> registerPut(st, l)
      [] pcv = "reg_store"            -> storeAgent(st, l)
      [] pcv = "reg_connect"          -> connectAgent(st, l)
      [] pcv = "reg_waiting"          -> transitionToWaiting(st, l)
      [] pcv = "reg_holder"           -> checkHolder(st, l)
      [] pcv = "reg_message"          -> readLastMessage(st, l)
      [] pcv = "reg_working"          -> transitionToWorking(st, l)
      [] pcv = "reg_ack"              -> sendAck(st, l, c)
      [] pcv = "reg_activate"         -> sendResume(st, l, c)
      [] pcv = "val_rights"           -> checkRights(st, l)
      [] pcv = "val_rights_error"     -> rightsError(st, l)
      [] pcv = "val_target"           -> checkTargetRegistered(st, l)
      [] pcv = "val_target_get"       -> getTarget(st, l)
      [] pcv = "val_target_connected" -> checkTargetConnected(st, l)
      [] pcv = "val_source"           -> getSourceToCheck(st, l)
      [] pcv = "val_source_barrel"    -> readHasBarrel(st, l)
      [] pcv = "val_source_state"     -> checkConsistency(st, l)
      [] pcv = "yield_source"         -> getSource(st, l)
      [] pcv = "yield_source_yield"   -> yieldSource(st, l)
      [] pcv = "xfer_check"           -> transferCheck(st, l)
      [] pcv = "xfer_record"          -> transferRecord(st, l, t)
      [] pcv = "xfer_holder"          -> transferHolder(st, l)
      [] pcv = "xfer_message"         -> transferMessage(st, l)
      [] pcv = "xfer_time"            -> transferTime(st, l)
      [] pcv = "xfer_append_read"     -> transferAppendRead(st, l)
      [] pcv = "xfer_append"          -> transferAppend(st, l)
      [] pcv = "yield_notify"         -> notifyLookup(st, l)
      [] pcv = "notify_write"         -> notifyWrite(st, l)
      [] pcv = "yield_target"         -> getTargetToActivate(st, l)
      [] pcv = "yield_activate"       -> activateTarget(st, l)
      [] pcv = "yield_lookup"         -> lookupConnection(st, l)
      [] pcv = "yield_write"          -> sendActivate(st, l)
      [] pcv = "qs_range"             -> rangeAgents(st, l, "qs_next")
      [] pcv = "qs_next"              -> nextAgent(st, l, role)
      [] pcv = "qs_agent_state"       -> readAgentState(st, l)
      [] pcv = "qs_agent_connected"   -> readAgentConnected(st, l)
      [] pcv = "qs_holder"            -> readHolder(st, l)
      [] pcv = "qs_roles"             -> rangeAgents(st, l, "qs_roles_next")
      [] pcv = "qs_roles_next"        -> nextRole(st, l, role)
      [] pcv = "qs_write"             -> sendStatus(st, l, c)
      [] pcv = "qa_read"              -> readDetails(st, l)
      [] pcv = "qa_write"             -> sendDetails(st, l, c)

\* The labels whose statement reads, iterates over, or writes the map
\* s.agents.
ReadsAgents ==
    {"reg_get", "unreg_check", "reg_check", "val_target", "val_target_get", "val_source",
     "yield_source", "yield_target", "qa_read"}
IteratesAgents == {"qs_range", "qs_next", "qs_roles", "qs_roles_next"}
RangeLabels == {"qs_next", "qs_roles_next"}
WritesAgents == {"unreg_delete", "reg_put"}

\* The entries the iteration of goroutine locals l may produce next in
\* state s: a pending or a created entry, or none when nothing is pending.
NextEntries(s, l) ==
    Pending(s, l) \cup Created(s, l) \cup (IF Pending(s, l) = {} THEN {NoEntry} ELSE {})

\* One line handled by a goroutine that runs alone, from its receipt to the
\* return of processMessage.
RECURSIVE RunAlone(_, _, _, _, _)
RunAlone(st, l, pcv, c, t) ==
    IF pcv = "read" THEN st
    ELSE LET role == IF pcv \in RangeLabels THEN CHOOSE r \in NextEntries(st.s, l) : TRUE
                     ELSE NoEntry
             n == Statement(st, l, pcv, c, t, role)
         IN RunAlone(n.st, n.l, n.pc, c, t)

Serve(st, c, f, t) ==
    LET first == processMessage(f) IN
    RunAlone(st, [NoLocals EXCEPT !.f = f, !.err = first.err], first.pc, c, t)

(***************************************************************************)
(* The actions of the server, of its operator and of its peers.            *)
(***************************************************************************)
Shared == [s |-> soviet, conns |-> connections, cs |-> connState, w |-> wire]
Running == ended = NoErr

\* The time a goroutine reads is not before a time read earlier.
Timestamps ==
    {LastTransferTime(soviet)} \cup
    {cmd[c].record.Timestamp : c \in {d \in Conns : cmd[d].record # NoRecord}}
LatestTime == CHOOSE t \in Timestamps : \A u \in Timestamps : u <= t
Times(c) ==
    IF pc[c] = "xfer_record"
    THEN {t \in LatestTime .. LatestTime + 1 : t <= MaxTime \/ t = LatestTime}
    ELSE {0}
Entries(c) == IF pc[c] \in RangeLabels THEN NextEntries(soviet, cmd[c]) ELSE {NoEntry}

ErrListen == "failed to start TCP server: listen tcp: address already in use"
ErrClosed == "close tcp: use of closed network connection"

\* The goroutines of acceptConnections, all of them started by a Start that
\* succeeded.
Starts == acceptors.current + acceptors.stale

\* TCPServer.Start: net.Listen on the server's port.  Start does not look at
\* s.listener: whether net.Listen succeeds (ok) is the operating system's
\* answer, which is no while the port is taken and yes for port 0 even while
\* the server's own listener is open.  On failure the server is left as it
\* was.  On success s.listener is overwritten with the new listener and one
\* more acceptConnections goroutine runs.  A listener that was open stays
\* open, with nothing left to close it: of the goroutines that were
\* accepting on it, stuck are inside its Accept() and stay there until a
\* peer connects to it; the others read s.listener again and go on with the
\* new one.
Start(ok, stuck) ==
    /\ Running
    /\ ok => Starts < MaxStarts
    /\ stuck <= acceptors.current
    /\ stuck > 0 => ok /\ listener = "open"
    /\ listener' = IF ok THEN "open" ELSE listener
    /\ acceptors' = IF ok THEN [current |-> acceptors.current - stuck + 1,
                                stale |-> acceptors.stale + stuck]
                  ELSE acceptors
    /\ ret' = [NoCall EXCEPT !.op = "Start", !.err = IF ok THEN NoErr ELSE ErrListen]
    /\ UNCHANGED <<soviet, connState, connections, pc, cmd, issued, wire, inbox, ended>>

\* Mutant: Stop leaves the listener as it is.
Stop_LeavesListener ==
    /\ Running
    /\ ret' = [NoCall EXCEPT !.op = "Stop"]
    /\ UNCHANGED <<soviet, connState, connections, pc, cmd, issued, wire, inbox,
                   listener, acceptors, ended>>

\* TCPServer.Stop: s.listener.Close() if there is a listener, and nothing
\* else; closing a closed listener is an error.  Only the listener s.listener
\* refers to is closed.
Stop ==
    /\ Running
    /\ listener' = IF listener = "nil" THEN "nil" ELSE "closed"
    /\ ret' = [NoCall EXCEPT !.op = "Stop",
                             !.err = IF listener = "closed" THEN ErrClosed ELSE NoErr]
    /\ UNCHANGED <<soviet, connState, connections, pc, cmd, issued, wire, inbox,
                   acceptors, ended>>

\* acceptConnections: s.listener.Accept() returns a connection and
\* go s.handleConnection(ctx, conn).  The goroutine is one that accepts on
\* s.listener, which must be open, or (stale) one that was left inside the
\* Accept() of a replaced listener, which goes on with s.listener afterwards.
Accept(c, stale) ==
    /\ Running /\ connState[c] = "free"
    /\ IF stale THEN acceptors.stale > 0 ELSE listener = "open"
    /\ \A d \in Conns : d < c => connState[d] # "free"
    /\ connState' = [connState EXCEPT ![c] = "open"]
    /\ pc' = [pc EXCEPT ![c] = "read"]
    /\ acceptors' = IF stale THEN [current |-> acceptors.current + 1,
                                   stale |-> acceptors.stale - 1]
                  ELSE acceptors
    /\ UNCHANGED <<soviet, ret, connections, cmd, issued, wire, inbox, listener, ended>>

\* The peer of connection c writes a line.
PeerSend(c, f) ==
    /\ Running /\ connState[c] = "open"
    /\ inbox' = [inbox EXCEPT ![c] = Append(@, f)]
    /\ UNCHANGED <<soviet, ret, connState, connections, pc, cmd, issued, wire,
                   listener, acceptors, ended>>

\* The lines the peers have sent.
Sent == Len(issued) + Len(inbox[1]) + Len(inbox[2])

\* Mutant: the scanner hands over the newest line.
NextFrame_Newest(q) == q[Len(q)]

\* scanner.Scan / scanner.Text: the next line of the stream.
NextFrame(q) == Head(q)

\* handleConnection: scanner.Scan() returns true and the goroutine has the
\* next line.  A blank line is skipped: the loop continues with nothing
\* written and processMessage not called.  With any other line the goroutine
\* enters processMessage.  Lines the peer sent before it closed its end are
\* still read.
ReadLine(c) ==
    /\ Running /\ pc[c] = "read" /\ inbox[c] # <<>> /\ ~Head(inbox[c]).TooLong
    /\ LET f == NextFrame(inbox[c])
           first == processMessage(f)
       IN IF f.Blank
          THEN UNCHANGED <<pc, cmd, issued>>
          ELSE /\ pc' = [pc EXCEPT ![c] = first.pc]
               /\ cmd' = [cmd EXCEPT ![c] = [NoLocals EXCEPT !.f = f, !.err = first.err]]
               /\ issued' = Append(issued, [conn |-> c, frame |-> f])
    /\ inbox' = [inbox EXCEPT ![c] = Tail(@)]
    /\ UNCHANGED <<soviet, ret, connState, connections, wire, listener, acceptors,
                   ended>>

\* One statement of the goroutine of connection c.
Execute(c) ==
    /\ Running
    /\ \E t \in Times(c), role \in Entries(c) :
          LET n == Statement(Shared, cmd[c], pc[c], c, t, role) IN
          /\ soviet' = n.st.s /\ connections' = n.st.conns /\ wire' = n.st.w
          /\ pc' = [pc EXCEPT ![c] = n.pc]
          /\ cmd' = [cmd EXCEPT ![c] =
                        IF n.pc = "read" THEN n.l
                        ELSE [n.l EXCEPT !.wrote = @ \/ n.st.s # soviet
                                                   \/ n.st.conns # connections]]
    /\ UNCHANGED <<ret, connState, issued, inbox, listener, acceptors, ended>>

StepRegisterHandler(c) == pc[c] \in RegisterHandlerLabels /\ Execute(c)
StepRegisterAgent(c)   == pc[c] \in RegisterAgentLabels /\ Execute(c)
StepValidate(c)        == pc[c] \in ValidateLabels /\ Execute(c)
StepProcessYield(c)    == pc[c] \in ProcessYieldLabels /\ Execute(c)
StepSendActivation(c)  == pc[c] \in SendActivationLabels /\ Execute(c)
StepTransferTo(c)      == pc[c] \in TransferToLabels /\ Execute(c)
StepYieldHandler(c)    == pc[c] \in YieldHandlerLabels /\ Execute(c)
StepQueryStatus(c)     == pc[c] \in QueryStatusLabels /\ Execute(c)
StepQueryHandler(c)    == pc[c] \in QueryHandlerLabels /\ Execute(c)
StepSendError(c)       == pc[c] = "send_error" /\ Execute(c)

Handlers ==
    \E c \in Conns :
        \/ StepRegisterHandler(c) \/ StepRegisterAgent(c)
        \/ StepValidate(c) \/ StepProcessYield(c) \/ StepTransferTo(c)
        \/ StepYieldHandler(c)
        \/ StepQueryStatus(c) \/ StepQueryHandler(c)
        \/ StepSendError(c)

\* The process ends: no goroutine takes another step, and the operating
\* system closes the sockets the process had open.
ProcessEnds(how) ==
    /\ Running
    /\ ended' = how
    /\ connState' = [c \in Conns |-> IF connState[c] = "free" THEN "free" ELSE "released"]
    /\ listener' = IF listener = "open" THEN "closed" ELSE listener

\* Two goroutines reach s.agents at the same time, one of them to write it:
\* the Go runtime may detect it and end the process.
ConcurrentMapAccess(c, d) ==
    /\ Running /\ c # d
    /\ pc[c] \in WritesAgents
    /\ pc[d] \in WritesAgents \cup ReadsAgents \cup IteratesAgents
    /\ ProcessEnds(IF pc[d] \in WritesAgents THEN "fatal error: concurrent map writes"
                   ELSE IF pc[d] \in ReadsAgents
                   THEN "fatal error: concurrent map read and map write"
                   ELSE "fatal error: concurrent map iteration and map write")
    /\ UNCHANGED <<soviet, ret, connections, pc, cmd, issued, wire, inbox, acceptors>>

\* The peer closes its end of the stream, or the stream breaks.
PeerClose(c) ==
    /\ Running /\ connState[c] = "open"
    /\ connState' = [connState EXCEPT ![c] = "closed"]
    /\ UNCHANGED <<soviet, ret, connections, pc, cmd, issued, wire, inbox, listener,
                   acceptors, ended>>

\* scanner.Scan() returns false: the stream is at its end (every line read
\* and the stream closed or broken), or the next line is too long for the
\* scanner, whatever the state of the stream.
ScanFails(c) ==
    IF inbox[c] = <<>> THEN connState[c] \in {"closed", "released"}
    ELSE Head(inbox[c]).TooLong

\* handleConnection: scanner.Scan() returns false, the loop ends, the scan
\* error if any is logged, the goroutine returns and its deferred
\* conn.Close() runs.  Nothing is written to the stream, and the lines from
\* the one that is too long on are never handled.
HandlerExit(c) ==
    /\ Running /\ pc[c] = "read" /\ connState[c] # "free" /\ ScanFails(c)
    /\ pc' = [pc EXCEPT ![c] = "exited"]
    /\ connState' = [connState EXCEPT ![c] = "released"]
    /\ soviet' = handleConnectionExit(soviet, connections, c)
    /\ UNCHANGED <<ret, connections, cmd, issued, wire, inbox, listener, acceptors,
                   ended>>

\* TCPMessageSender.RegisterConnection: s.connections[role] = conn.
RegisterConnection(role, c) ==
    /\ Running /\ soviet.sender.set /\ connState[c] # "free"
    /\ soviet' = [soviet EXCEPT !.sender.connections = MapPut(@, role, c)]
    /\ UNCHANGED <<ret, connState, connections, pc, cmd, issued, wire, inbox, listener,
                   acceptors, ended>>

\* TCPMessageSender.UnregisterConnection: the connection of the role, if
\* there is one, is closed and its entry deleted.  Of the lines the
\* connection's goroutine has not read yet, those the scanner has buffered
\* (the first kept of them) are still read, the rest are lost.
UnregisterConnection(role, kept) ==
    /\ Running /\ soviet.sender.set
    /\ role \in DOMAIN soviet.sender.connections
    /\ LET c == soviet.sender.connections[role] IN
       /\ kept <= Len(inbox[c])
       /\ connState' = [connState EXCEPT ![c] = "released"]
       /\ inbox' = [inbox EXCEPT ![c] = SubSeq(@, 1, kept)]
    /\ soviet' = [soviet EXCEPT !.sender.connections = MapDelete(@, role)]
    /\ UNCHANGED <<ret, connections, pc, cmd, issued, wire, listener, acceptors, ended>>

(***************************************************************************)
(* Specification SpecTCP: the server built as cmd/server/main.go builds    *)
(* it, in the hands of an owner who calls Start and Stop in any order.     *)
(* The peers write ahead of the server: lines queue up in inbox[c] until   *)
(* the goroutine of c reads them.                                          *)
(***************************************************************************)
TcpFrames ==
    { TCPMessage("REGISTER", "developer", "", "", ""),
      TCPMessage("REGISTER", "tester", "", "", ""),
      TCPMessage("YIELD", "", People, "developer", "p1"),
      TCPMessage("QUERY_STATUS", "", "", "", ""),
      TCPMessage("QUERY_AGENTS", "", "", "", ""),
      OversizeLine, BlankLine }

Operator ==
    \/ \E ok \in BOOLEAN, stuck \in 0..MaxStarts : Start(ok, stuck)
    \/ Stop

Goroutines ==
    \/ \E c \in Conns : ReadLine(c)
    \/ Handlers
    \/ \E c \in Conns : HandlerExit(c)

Peers(frames, max) ==
    \/ \E c \in Conns, f \in frames : Sent < max /\ PeerSend(c, f)
    \/ \E c \in Conns : PeerClose(c)

NextTCP ==
    \/ Operator
    \/ \E c \in Conns, stale \in BOOLEAN : Accept(c, stale)
    \/ Peers(TcpFrames, MaxFrames)
    \/ Goroutines
    \/ \E c \in Conns, d \in Conns : ConcurrentMapAccess(c, d)

SpecTCP == Init /\ [][NextTCP]_vars

(***************************************************************************)
(* Specification SpecStream: the program cmd/server/main.go, with the      *)
(* scheduler's guarantee.  main starts the server once and exits if that   *)
(* fails; it stops the server when a shutdown signal arrives and returns,  *)
(* which ends the process.  A goroutine that can take a step eventually    *)
(* takes one, main on its way out included; the peers and the sender of    *)
(* the signal are under no such obligation.                                *)
(***************************************************************************)
\* os.Exit(code), or main returns (code 0).
Exit(code) ==
    /\ ProcessEnds(IF code = 0 THEN "exit status 0" ELSE "exit status 1")
    /\ UNCHANGED <<soviet, ret, connections, pc, cmd, issued, wire, inbox, acceptors>>

\* main: server.Start(ctx).
MainStart(ok) == listener = "nil" /\ ret.op = "none" /\ Start(ok, 0)

\* main: server.Start failed, os.Exit(1).
MainStartFailed == ret.op = "Start" /\ ret.err # NoErr /\ Exit(1)

\* main: <-sigChan delivers SIGINT or SIGTERM, server.Stop().
MainSignal == ret.op = "Start" /\ ret.err = NoErr /\ Stop

\* main: returns after server.Stop().
MainReturn == ret.op = "Stop" /\ Exit(0)

MainExits == MainStartFailed \/ MainReturn

Main == (\E ok \in BOOLEAN : MainStart(ok)) \/ MainSignal \/ MainExits

MaxStreamFrames == 2
StreamFrames ==
    { TCPMessage("REGISTER", "developer", "", "", ""),
      TCPMessage("REGISTER", "tester", "", "", ""),
      TCPMessage("REGISTER", "", "", "", ""),
      TCPMessage("YIELD", "", People, "developer", "p1"),
      TCPMessage("YIELD", "", "developer", People, "p1"),
      TCPMessage("QUERY_STATUS", "", "", "", ""),
      TCPMessage("QUERY_AGENTS", "", "", "", ""),
      TCPMessage("PING", "", "", "", ""),
      InvalidJSON, OversizeLine, BlankLine }

NextStream ==
    \/ Main
    \/ \E c \in Conns : Accept(c, FALSE)
    \/ Peers(StreamFrames, MaxStreamFrames)
    \/ Goroutines
    \/ \E c \in Conns, d \in Conns : ConcurrentMapAccess(c, d)

SpecStream == Init /\ [][NextStream]_vars /\ WF_vars(Goroutines) /\ WF_vars(MainExits)

(***************************************************************************)
(* Specification SpecWire: the coordinator built with a TCPMessageSender   *)
(* (NewSovietStateWithDependencies), whose owner registers and unregisters *)
(* the connections of developer with it.  The server has been started and  *)
(* is listening.                                                           *)
(***************************************************************************)
MaxWireFrames == 2
WireRoles == {"developer"}
WireFrames ==
    { TCPMessage("REGISTER", "developer", "", "", ""),
      TCPMessage("REGISTER", "", "", "", ""),
      Mistyped("REGISTER"),
      TCPMessage("YIELD", "", People, "developer", "p1"),
      TCPMessage("YIELD", "", "developer", People, "p1"),
      TCPMessage("YIELD", "", "developer", "", "p1"),
      Mistyped("YIELD"),
      TCPMessage("QUERY_STATUS", "", "", "", ""),
      TCPMessage("QUERY_AGENTS", "", "", "", ""),
      TCPMessage("PING", "", "", "", ""),
      InvalidJSON, OversizeLine, BlankLine }

WireInit ==
    /\ soviet = [MainSoviet(0) EXCEPT !.sender = NewTCPMessageSender]
    /\ ret = NoCall
    /\ connState = [c \in Conns |-> "free"]
    /\ connections = EmptyMap
    /\ pc = [c \in Conns |-> "read"]
    /\ cmd = [c \in Conns |-> NoLocals]
    /\ issued = <<>>
    /\ wire = [c \in Conns |-> <<>>]
    /\ inbox = [c \in Conns |-> <<>>]
    /\ listener = "open"
    /\ acceptors = [current |-> 1, stale |-> 0]
    /\ ended = NoErr

NextWire ==
    \/ \E c \in Conns : Accept(c, FALSE)
    \/ Peers(WireFrames, MaxWireFrames)
    \/ Goroutines
    \/ \E c \in Conns : StepSendActivation(c)
    \/ \E c \in Conns, d \in Conns : ConcurrentMapAccess(c, d)
    \/ \E role \in WireRoles, c \in Conns : RegisterConnection(role, c)
    \/ \E role \in WireRoles, kept \in 0..MaxWireFrames : UnregisterConnection(role, kept)

SpecWire == WireInit /\ [][NextWire]_vars

\* The barrel without its timestamps.
Untimed(b) ==
    [currentHolder |-> b.currentHolder, lastMessage |-> b.lastMessage,
     history |-> [i \in 1..Len(b.history) |->
                     [FromRole |-> b.history[i].FromRole, ToRole |-> b.history[i].ToRole,
                      Message |-> b.history[i].Message]]]

\* The lines taken up so far handled one after the other, each to
\* completion, from the state st.
RECURSIVE SerialRun(_, _)
SerialRun(st, frames) ==
    IF frames = <<>> THEN st
    ELSE SerialRun(Serve(st, Head(frames).conn, Head(frames).frame,
                         st.s.barrel.transferTime),
                   Tail(frames))

(***************************************************************************)
(* Specification SpecConc: the goroutines of two connections at work on a  *)
(* server that has handled, one after the other, REGISTER developer on     *)
(* connection 1, REGISTER tester on connection 2 and YIELD people ->       *)
(* developer.  `issued` records the lines taken up since then.             *)
(***************************************************************************)
MaxConcFrames == 2
ConcRoles == {"developer", "tester"}
ConcLines ==
    << [conn |-> 1, frame |-> TCPMessage("REGISTER", "developer", "", "", "")],
       [conn |-> 2, frame |-> TCPMessage("REGISTER", "tester", "", "", "")],
       [conn |-> 2, frame |-> TCPMessage("YIELD", "", People, "developer", "p1")] >>
ConcShared ==
    SerialRun([s |-> MainSoviet(0), conns |-> EmptyMap,
               cs |-> [c \in Conns |-> "open"], w |-> [c \in Conns |-> <<>>]],
              ConcLines)

ConcFrames ==
    { TCPMessage("REGISTER", "developer", "", "", ""),
      TCPMessage("REGISTER", "tester", "", "", ""),
      TCPMessage("REGISTER", "", "", "", ""),
      TCPMessage("YIELD", "", People, "tester", "p2"),
      TCPMessage("YIELD", "", "developer", "tester", "p2"),
      TCPMessage("YIELD", "", "developer", People, "p2"),
      TCPMessage("YIELD", "", "tester", "developer", "p2"),
      TCPMessage("YIELD", "", "developer", "developer", "p2"),
      TCPMessage("QUERY_STATUS", "", "", "", ""),
      TCPMessage("QUERY_AGENTS", "", "", "", ""),
      TCPMessage("PING", "", "", "", ""),
      InvalidJSON, OversizeLine, BlankLine }

ConcInit ==
    /\ soviet = ConcShared.s
    /\ ret = NoCall
    /\ connState = ConcShared.cs
    /\ connections = ConcShared.conns
    /\ pc = [c \in Conns |-> "read"]
    /\ cmd = [c \in Conns |-> NoLocals]
    /\ issued = <<>>
    /\ wire = ConcShared.w
    /\ inbox = [c \in Conns |-> <<>>]
    /\ listener = "open"
    /\ acceptors = [current |-> 1, stale |-> 0]
    /\ ended = NoErr

NextConc ==
    \/ Peers(ConcFrames, MaxConcFrames)
    \/ Goroutines
    \/ \E c \in Conns, d \in Conns : ConcurrentMapAccess(c, d)

SpecConc == ConcInit /\ [][NextConc]_vars

Orders(n) == {f \in [1..n -> 1..n] : \A i \in 1..n, j \in 1..n : i # j => f[i] # f[j]}

\* The registry as a snapshot sees it: role -> contents of the record.
Registry(s) == [r \in DOMAIN s.agents |-> s.heap[s.agents[r]]]

(***************************************************************************)
(* Vocabulary of the properties.  The specification calls the barrel the   *)
(* token, "working" active and "waiting" idle.                             *)
(***************************************************************************)
AgentRoles == Roles \ {"", People}      \* the roles an agent may legitimately carry
Holder == soviet.barrel.currentHolder
Record(s, role) == s.heap[s.agents[role]]
IsActive(s, role) == role \in DOMAIN s.agents /\ Record(s, role).state = AgentStateWorking
IsIdle(s, role) == role \in DOMAIN s.agents /\ Record(s, role).state = AgentStateWaiting
ActiveRoles(s) == {r \in DOMAIN s.agents : IsActive(s, r)}
Yield(s, fromRole, toRole, payload) ==
    ProcessYield(s, NewYieldMessage(fromRole, toRole, payload), s.barrel.transferTime)

(***************************************************************************)
(* C1: in every reachable state at most one registry record is active, an  *)
(* active record's role is the token holder, and no record is active while *)
(* the holder is people.                                                   *)
(***************************************************************************)
C1_SingleActiveIsHolder ==
    /\ Cardinality(ActiveRoles(soviet)) <= 1
    /\ \A r \in ActiveRoles(soviet) : r = Holder
    /\ Holder = People => ActiveRoles(soviet) = {}

(***************************************************************************)
(* C2: people override.  Whenever the token is held by a registered agent  *)
(* t whose record is active, a yield from people to another registered,    *)
(* connected agent d succeeds, makes d the holder, d's record active and   *)
(* t's record idle.                                                        *)
(***************************************************************************)
C2_PeopleOverride ==
    \A t \in AgentRoles, d \in AgentRoles, payload \in Payloads :
        ( /\ Holder = t /\ IsActive(soviet, t)
          /\ d # t /\ d \in DOMAIN soviet.agents /\ Record(soviet, d).connected )
        => LET r == Yield(soviet, People, d, payload) IN
           /\ r.err = NoErr
           /\ r.s.barrel.currentHolder = d
           /\ IsActive(r.s, d)
           /\ IsIdle(r.s, t)

(***************************************************************************)
(* C3: mutating operations are atomic with respect to each other.  When    *)
(* every goroutine is at its read loop or gone, the token (holder, last    *)
(* payload and log, whatever the clock read) and the registry equal what   *)
(* some serial order of the lines taken up so far produces from the same   *)
(* starting state.                                                         *)
(***************************************************************************)
Quiescent == \A c \in Conns : pc[c] \in {"read", "exited"}

C3_Serializable ==
    (Running /\ Quiescent) =>
        \E f \in Orders(Len(issued)) :
            LET st == SerialRun(ConcShared, [i \in 1..Len(issued) |-> issued[f[i]]]) IN
            /\ Untimed(st.s.barrel) = Untimed(soviet.barrel)
            /\ Registry(st.s) = Registry(soviet)

(***************************************************************************)
(* C4: reconnect resumes.  In every reachable state whose holder is an     *)
(* agent role r, RegisterAgent for r returns shouldResume = true and the   *)
(* token's last payload, leaves the holder r, and the record it inserts    *)
(* for r is active and connected.                                          *)
(***************************************************************************)
C4_ReconnectResumes ==
    \A r \in AgentRoles :
        Holder = r =>
            LET res == RegisterAgent(soviet, r)
                p   == Len(soviet.heap) + 1
            IN /\ res.err = NoErr
               /\ res.resume
               /\ res.msg = soviet.barrel.lastMessage
               /\ res.s.barrel.currentHolder = r
               /\ GetAgent(res.s, r) = p
               /\ res.s.heap[p].state = AgentStateWorking
               /\ res.s.heap[p].connected

C4_Witness ==
    /\ ret.op = "RegisterAgent" /\ ret.resume /\ ret.msg \in Payloads
    /\ Holder \in AgentRoles /\ IsActive(soviet, Holder)
    /\ Len(soviet.heap) = 2 /\ soviet.heap[1].role = Holder /\ soviet.agents[Holder] = 2

(***************************************************************************)
(* C5: authorization.  In every reachable state a yield whose from_role is *)
(* neither people nor the holder returns an error and leaves the token     *)
(* (holder, last payload, log) and every record unchanged, whatever the    *)
(* to_role.                                                                *)
(***************************************************************************)
C5_UnauthorizedYieldRejected ==
    \A fromRole \in Roles \ {People, Holder}, toRole \in Roles, payload \in Payloads :
        LET r == Yield(soviet, fromRole, toRole, payload) IN
        r.err # NoErr /\ r.s = soviet

C5_Witness ==
    /\ ret.op = "ProcessYield" /\ (\E r \in Roles : ret.err = ErrNotHolder(Holder, r))
    /\ Holder \in AgentRoles /\ Cardinality(DOMAIN soviet.agents) = 2

(***************************************************************************)
(* C6: single holder.  The holder is people on a fresh coordinator, is     *)
(* never the empty string, and changes only through a successful yield or  *)
(* through the deregistration of the role that holds the token.            *)
(***************************************************************************)
C6_SingleHolder ==
    /\ Holder = People
    /\ [](Holder \in Roles \ {""})
    /\ [][ Holder' # Holder =>
             \/ ret'.op = "ProcessYield" /\ ret'.err = NoErr
             \/ /\ ret'.op = "DeregisterAgent" /\ ret'.err = NoErr
                /\ Holder' = People
                /\ Holder \in DOMAIN soviet.agents
                /\ Holder \notin DOMAIN soviet'.agents ]_vars

C6_Witness ==
    /\ ret.op = "DeregisterAgent" /\ ret.err = NoErr
    /\ Holder = People /\ Len(soviet.barrel.history) = 3
    /\ soviet.barrel.history[3].FromRole \in AgentRoles

(***************************************************************************)
(* C7: replace on reconnect.  From every reachable state, registering role *)
(* r twice in succession leaves exactly the second record registered for r *)
(* (connected), and the first record disconnected; a third registration    *)
(* leaves only the third connected and registered.                         *)
(***************************************************************************)
C7_ReplaceOnReconnect ==
    \A r \in AgentRoles :
        LET p1 == Len(soviet.heap) + 1
            s1 == RegisterAgent(soviet, r).s
            s2 == RegisterAgent(s1, r).s
            s3 == RegisterAgent(s2, r).s
        IN /\ GetAgent(s1, r) = p1 /\ s1.heap[p1].connected
           /\ GetAgent(s2, r) = p1 + 1
           /\ s2.heap[p1 + 1].connected /\ ~s2.heap[p1].connected
           /\ \A x \in DOMAIN s2.agents : s2.agents[x] # p1
           /\ GetAgent(s3, r) = p1 + 2
           /\ s3.heap[p1 + 2].connected /\ ~s3.heap[p1 + 1].connected /\ ~s3.heap[p1].connected
           /\ \A x \in DOMAIN s3.agents : s3.agents[x] \notin {p1, p1 + 1}

C7_Witness ==
    /\ ret.op = "RegisterAgent" /\ ret.err = NoErr
    /\ Len(soviet.heap) = 2 /\ soviet.heap[1].role = soviet.heap[2].role
    /\ soviet.heap[1].role \in AgentRoles
    /\ soviet.agents[soviet.heap[2].role] = 2
    /\ soviet.heap[2].connected /\ ~soviet.heap[1].connected

(***************************************************************************)
(* C8: deregister of the holder returns the token.  In every reachable     *)
(* state where a role r is registered and holds the token,                 *)
(* DeregisterAgent(r) succeeds, leaves the holder people and r out of the  *)
(* registry, and appends exactly one log entry, r to people, carrying the  *)
(* synthesized payload.                                                    *)
(***************************************************************************)
C8_DeregisterHolderReturnsToken ==
    \A r \in Roles :
        (Holder = r /\ r \in DOMAIN soviet.agents) =>
            LET t   == soviet.barrel.transferTime
                res == DeregisterAgent(soviet, r, t)
            IN /\ res.err = NoErr
               /\ res.s.barrel.currentHolder = People
               /\ r \notin DOMAIN res.s.agents
               /\ res.s.barrel.history =
                      Append(soviet.barrel.history,
                             TransferRecord(r, People, DeregisterMessage(r), t))

(***************************************************************************)
(* C9: stream termination deregisters.  Whenever the handler of the stream *)
(* that acknowledged a REGISTER of r and is the current binding of the     *)
(* registered agent role r leaves its read loop (EOF or I/O error), the    *)
(* server deregisters r: a QUERY_STATUS answered from the state after that *)
(* step does not list r among the registered agents and, if r held the     *)
(* token, reports people as the holder.                                    *)
(***************************************************************************)
Exits(c) == pc[c] # "exited" /\ pc'[c] = "exited"

Acked(c, r) ==
    \E i \in 1..Len(wire[c]) :
        wire[c][i].Type = "ACK_REGISTER" /\ wire[c][i].Message = EnlistedMessage(r)

C9_StreamTerminationDeregisters ==
    [][ \A c \in Conns, r \in AgentRoles :
          ( /\ Exits(c)
            /\ BoundConn(connections, r) = c /\ Acked(c, r)
            /\ IsAgentRegistered(soviet, r) )
          => /\ r \notin DOMAIN QueryStatus(soviet').RegisteredAgents
             /\ (Holder = r => QueryStatus(soviet').BarrelHolder = People) ]_vars

(***************************************************************************)
(* C10: a crashed holder keeps the token.  While the stream bound to the   *)
(* holder r is down (the step that takes it down included: the peer's      *)
(* close, or the return of its handler, which closes a stream that is      *)
(* still open after a scan error), every step leaves r the holder and r's  *)
(* record in the registry in state active, unless it is a step in the      *)
(* handling of a REGISTER of r (r reconnects or is replaced) or of a YIELD *)
(* that has passed its rights check (a yield of the token on purpose).     *)
(* Steps of every other line, rejected YIELDs included, are held to it.    *)
(***************************************************************************)
StreamDown(r) ==
    /\ BoundConn(connections, r) # NoConn
    /\ connState[BoundConn(connections, r)] \in {"closed", "released"}

\* A step in the handling of a line that replaces r or passes the token on.
Supersedes(c, r) ==
    /\ pc[c] \notin {"read", "exited"} /\ pc'[c] # pc[c]
    /\ \/ cmd[c].f.Type = "REGISTER" /\ cmd[c].f.Role = r
       \/ /\ cmd[c].f.Type = "YIELD"
          /\ pc[c] \notin {"val_rights", "val_rights_error", "send_error"}

C10_CrashedHolderKeepsToken ==
    [][ \A r \in AgentRoles :
          ( /\ Holder = r /\ IsActive(soviet, r)
            /\ BoundConn(connections', r) # NoConn
            /\ connState'[BoundConn(connections', r)] \in {"closed", "released"} )
          => \/ soviet'.barrel.currentHolder = r /\ IsActive(soviet', r)
             \/ \E c \in Conns : Supersedes(c, r) ]_vars

C10_Witness ==
    /\ Holder = "developer" /\ IsActive(soviet, "developer")
    /\ soviet.barrel.lastMessage \in Payloads
    /\ connections["developer"] = 1 /\ StreamDown("developer")
    /\ pc[1] = "exited" /\ inbox[1] # <<>> /\ Head(inbox[1]).TooLong
    /\ pc[2] = "read" /\ Len(issued) = 1 /\ issued[1].conn = 2
    /\ issued[1].frame = TCPMessage("REGISTER", "tester", "", "", "")

(***************************************************************************)
(* C11: reserved and empty roles are never registered.  In every reachable *)
(* state RegisterAgent with role "" or people returns an error, does not   *)
(* resume and leaves token, registry and records unchanged; no registry    *)
(* key is "" or people.                                                    *)
(***************************************************************************)
C11_ReservedRolesRejected ==
    /\ \A role \in {"", People} :
          LET r == RegisterAgent(soviet, role) IN
          r.err # NoErr /\ ~r.resume /\ r.s = soviet
    /\ DOMAIN soviet.agents \cap {"", People} = {}

(***************************************************************************)
(* C12: a failing yield never mutates state.  In every reachable state,    *)
(* for every from, to and payload, if ProcessYield returns an error then   *)
(* the token, the registry and every record are as before the call.        *)
(***************************************************************************)
C12_FailingYieldFramed ==
    \A fromRole \in Roles, toRole \in Roles, payload \in Payloads :
        LET r == Yield(soviet, fromRole, toRole, payload) IN
        r.err # NoErr => r.s = soviet

C12_Witness ==
    /\ ret.op = "ProcessYield" /\ ret.err = ErrSameRole(Holder)
    /\ Holder \in AgentRoles /\ IsActive(soviet, Holder)

(***************************************************************************)
(* C13: target validity.  In every reachable state, for a sender that is   *)
(* people or the holder and a target other than people: the yield is       *)
(* accepted only if the target is registered and connected; it is rejected *)
(* with nothing changed when the target is not registered, and when the    *)
(* target's record is marked disconnected; an agent holder may always      *)
(* yield to people.                                                        *)
(***************************************************************************)
Disconnect(s, role) == [s EXCEPT !.heap[s.agents[role]] = SetConnected(@, FALSE)]

C13_TargetValidity ==
    /\ \A fromRole \in {People, Holder}, toRole \in AgentRoles, payload \in Payloads :
          fromRole # toRole =>
            LET r == Yield(soviet, fromRole, toRole, payload) IN
            /\ r.err = NoErr =>
                  IsAgentRegistered(soviet, toRole) /\ Record(soviet, toRole).connected
            /\ ~IsAgentRegistered(soviet, toRole) =>
                  r.err = ErrTargetNotFound(toRole) /\ r.s = soviet
            /\ IsAgentRegistered(soviet, toRole) =>
                  LET d == Disconnect(soviet, toRole)
                      q == Yield(d, fromRole, toRole, payload)
                  IN q.err = ErrTargetNotConnected(toRole) /\ q.s = d
    /\ ValidateTargetAgent(soviet, People) = NoErr
    /\ Holder \in AgentRoles =>
          \A payload \in Payloads : Yield(soviet, Holder, People, payload).err = NoErr

C13_Witness ==
    /\ ret.op = "ProcessYield" /\ (\E r \in Roles : ret.err = ErrTargetNotFound(r))
    /\ Holder \in AgentRoles /\ Cardinality(DOMAIN soviet.agents) = 1

(***************************************************************************)
(* C14: self-yield rejection.  In every reachable state a yield whose      *)
(* from_role equals its to_role returns an error and changes nothing, for  *)
(* every role: people, the holder, any other.                              *)
(***************************************************************************)
C14_SelfYieldRejected ==
    \A role \in Roles, payload \in Payloads :
        LET r == Yield(soviet, role, role, payload) IN
        r.err # NoErr /\ r.s = soviet

C14_Witness ==
    /\ ret.op = "ProcessYield" /\ ret.err = ErrSelfYield(Holder)
    /\ Holder \in AgentRoles /\ IsActive(soviet, Holder)

(***************************************************************************)
(* C15: effect of a successful agent-to-agent yield.  In every reachable   *)
(* state where the holder a is active and b is another registered,         *)
(* connected, idle agent, a yield a -> b with payload p succeeds, makes a  *)
(* idle, b the holder with last payload p, b active with last message p,   *)
(* appends one log entry and changes no other record; from a state where   *)
(* people hold the token, people -> a then a -> b leaves holder b, a idle  *)
(* and b active; a holder yielding to people leaves holder people and      *)
(* itself idle.                                                            *)
(***************************************************************************)
C15_AgentToAgentYield ==
    \A a \in AgentRoles, b \in AgentRoles, p \in Payloads :
        ( /\ a # b
          /\ IsAgentRegistered(soviet, a) /\ Record(soviet, a).connected
          /\ IsIdle(soviet, b) /\ Record(soviet, b).connected )
        => /\ (Holder = a /\ IsActive(soviet, a)) =>
                 LET r == Yield(soviet, a, b, p)
                     q == Yield(soviet, a, People, p)
                 IN /\ r.err = NoErr
                    /\ IsIdle(r.s, a)
                    /\ r.s.barrel.currentHolder = b /\ r.s.barrel.lastMessage = p
                    /\ IsActive(r.s, b) /\ Record(r.s, b).lastMessage = p
                    /\ r.s.barrel.history =
                           Append(soviet.barrel.history,
                                  TransferRecord(a, b, p, soviet.barrel.transferTime))
                    /\ r.s.agents = soviet.agents
                    /\ \A i \in DOMAIN soviet.heap :
                           i \notin {soviet.agents[a], soviet.agents[b]} =>
                               r.s.heap[i] = soviet.heap[i]
                    /\ q.err = NoErr
                    /\ q.s.barrel.currentHolder = People /\ IsIdle(q.s, a)
           /\ (Holder = People /\ IsIdle(soviet, a)) =>
                 LET s1 == Yield(soviet, People, a, p).s
                     s2 == Yield(s1, a, b, p).s
                 IN /\ s2.barrel.currentHolder = b
                    /\ IsIdle(s2, a) /\ IsActive(s2, b)

C15_Witness ==
    LET h == soviet.barrel.history IN
    /\ ret.op = "ProcessYield" /\ ret.err = NoErr
    /\ Len(h) = 3 /\ h[2].FromRole = People /\ h[3].FromRole = h[2].ToRole
    /\ h[3].ToRole \in AgentRoles /\ Holder = h[3].ToRole
    /\ IsActive(soviet, Holder) /\ IsIdle(soviet, h[3].FromRole)
    /\ Record(soviet, Holder).lastMessage = soviet.barrel.lastMessage

(***************************************************************************)
(* C16: resume notification sequence.  In every reachable state in which   *)
(* no line is being handled, a REGISTER for the holder r arriving on an    *)
(* open stream that is not r's current one makes the server write to that  *)
(* stream exactly two messages: ACK_REGISTER with status success, then     *)
(* ACTIVATE whose payload is the token's last payload and whose from_role  *)
(* is the role that yielded the token to r.                                *)
(***************************************************************************)
Replies(st, c) == SubSeq(st.w[c], Len(wire[c]) + 1, Len(st.w[c]))

C16_ResumeNotification ==
    \A c \in Conns, r \in WireRoles :
        ( /\ Running /\ Quiescent /\ connState[c] = "open" /\ pc[c] = "read"
          /\ Holder = r /\ BoundConn(connections, r) # c ) =>
            LET st == Serve(Shared, c, TCPMessage("REGISTER", r, "", "", ""),
                            LastTransferTime(soviet))
                out == Replies(st, c)
                h == soviet.barrel.history
            IN /\ Len(out) = 2
               /\ out[1].Type = "ACK_REGISTER" /\ out[1].Status = "success"
               /\ out[2].Type = "ACTIVATE"
               /\ out[2].Payload = soviet.barrel.lastMessage
               /\ out[2].FromRole = h[Len(h)].FromRole

(***************************************************************************)
(* C17: binding replacement closes the stale stream.  Every step in which  *)
(* the server acknowledges a REGISTER of r on a stream while another       *)
(* stream has an acknowledgment of a REGISTER of r leaves r bound to the   *)
(* acknowledged stream, the other stream closed, and r registered and      *)
(* reported connected by QUERY_STATUS.                                     *)
(***************************************************************************)
Acknowledges(c, r) ==
    /\ pc[c] = "reg_ack" /\ pc'[c] # "reg_ack" /\ cmd[c].f.Role = r
    /\ connState[c] = "open"

C17_StaleStreamClosed ==
    [][\A c \in Conns, a \in Conns, r \in WireRoles :
          (a # c /\ Acked(a, r) /\ Acknowledges(c, r)) =>
              /\ connections'[r] = c
              /\ connState'[a] \in {"closed", "released"}
              /\ r \in DOMAIN QueryStatus(soviet').RegisteredAgents
              /\ QueryStatus(soviet').RegisteredAgents[r] = 1
              /\ QueryStatus(soviet').ConnectedAgents[r]]_vars

(***************************************************************************)
(* C18: the termination of a displaced stream is a no-op.  Every step in   *)
(* which a stream that acknowledged a REGISTER of r ends, or in which its  *)
(* handler leaves the read loop (at the end of the stream or on a scan     *)
(* error with the stream still open), while r is bound to another stream   *)
(* keeps r's record, the holder and r's binding.                           *)
(***************************************************************************)
Displaced(c, r) == Acked(c, r) /\ r \in DOMAIN connections /\ connections[r] # c

Terminates(c) == (connState[c] = "open" /\ connState'[c] = "closed") \/ Exits(c)

C18_DisplacedCloseIsNoop ==
    [][\A c \in Conns, r \in ConcRoles :
          (Displaced(c, r) /\ Terminates(c)) =>
              /\ IsAgentRegistered(soviet, r) =>
                    IsAgentRegistered(soviet', r) /\ Record(soviet', r) = Record(soviet, r)
              /\ soviet'.barrel.currentHolder = soviet.barrel.currentHolder
              /\ connections'[r] = connections[r]]_vars

C18_Witness ==
    \E c \in Conns, r \in ConcRoles :
        /\ pc[c] = "exited" /\ connState[c] = "released" /\ Displaced(c, r)
        /\ inbox[c] # <<>> /\ Head(inbox[c]).TooLong
        /\ connState[connections[r]] = "open"
        /\ Holder = r /\ IsActive(soviet, r)

(***************************************************************************)
(* C19: notifications follow the commit.  Whenever a goroutine is about to *)
(* attempt the ACTIVATE send of a yield to t (ProcessYield is at its call  *)
(* of SendActivation with a sender configured, SendActivation at its       *)
(* write, or handleYieldMessage at its write to t's stream), the holder is *)
(* already t and t's record is already active.                             *)
(***************************************************************************)
SendAttempted(c) ==
    \/ pc[c] = "yield_notify" /\ cmd[c].f.ToRole # People /\ soviet.sender.set
    \/ pc[c] = "notify_write"
    \/ pc[c] = "yield_write"

C19_NotifyAfterCommit ==
    \A c \in Conns :
        SendAttempted(c) =>
            Holder = cmd[c].f.ToRole /\ IsActive(soviet, cmd[c].f.ToRole)

(***************************************************************************)
(* C20: a delivery failure does not roll back.  In every reachable state,  *)
(* a YIELD line to an agent t that passes validation while the             *)
(* notification cannot be delivered (the sender's SendActivation fails, t  *)
(* has no bound stream, or t's stream is closed) is handled without an     *)
(* ERROR to any stream: the holder is t and t's record active; when        *)
(* neither the sender nor the handler can deliver, nothing is written at   *)
(* all; the next REGISTER of t is acknowledged and resumed with the        *)
(* payload.                                                                *)
(***************************************************************************)
StreamGone(t) == t \notin DOMAIN connections \/ connState[connections[t]] # "open"

\* SendActivation for t may return an error.
SenderFails(t, p) ==
    \E werr \in IF t \in DOMAIN soviet.sender.connections
                 THEN WriteOutcomes(connState, soviet.sender.connections[t])
                 ELSE {NoErr} :
        NotifyTarget(soviet, t, p, werr).err # NoErr

\* SendActivation for t delivers nothing.
SenderDrops(t) ==
    \/ ~soviet.sender.set
    \/ t \notin DOMAIN soviet.sender.connections
    \/ connState[soviet.sender.connections[t]] # "open"

NoError(st) ==
    \A c \in Conns : \A i \in 1..Len(Replies(st, c)) : Replies(st, c)[i].Type # "ERROR"

C20_DeliveryFailureKeepsCommit ==
    \A c \in Conns, fromRole \in WireRoles \cup {People}, t \in WireRoles,
       p \in WirePayloads :
        LET m == NewYieldMessage(fromRole, t, p)
            now == LastTransferTime(soviet)
            r == Serve(Shared, c, TCPMessage("YIELD", "", fromRole, t, p), now)
            next == Serve(r, c, TCPMessage("REGISTER", t, "", "", ""), now)
            out == SubSeq(next.w[c], Len(r.w[c]) + 1, Len(next.w[c]))
        IN ( /\ Running /\ connState[c] = "open" /\ pc[c] = "read"
             /\ ValidateYieldWorkflow(soviet, m) = NoErr /\ Holder # t
             /\ StreamGone(t) \/ SenderFails(t, p) )
           => /\ NoError(r)
              /\ r.s.barrel.currentHolder = t /\ IsActive(r.s, t)
              /\ (StreamGone(t) /\ SenderDrops(t)) => r.w = wire
              /\ IsActive(next.s, t)
              /\ Len(out) = 2 /\ out[1].Type = "ACK_REGISTER"
              /\ out[2].Type = "ACTIVATE" /\ out[2].Payload = p

C20_Witness ==
    /\ Quiescent /\ Len(issued) = 2
    /\ issued[2].frame.Type = "YIELD" /\ issued[2].frame.ToRole = Holder
    /\ Holder \in WireRoles /\ IsActive(soviet, Holder)
    /\ soviet.sender.set /\ Holder \in DOMAIN soviet.sender.connections
    /\ connState[soviet.sender.connections[Holder]] = "closed"
    /\ connState[connections[Holder]] = "closed"
    /\ \A c \in Conns : \A i \in 1..Len(wire[c]) : wire[c][i].Type = "ACK_REGISTER"

(***************************************************************************)
(* C21: people can always hand out work.  In every reachable state a yield *)
(* from people to any role that is registered, connected and not the       *)
(* current holder succeeds, whatever the states of the records.            *)
(***************************************************************************)
C21_PeopleCanAlwaysHandOut ==
    \A toRole \in DOMAIN soviet.agents, payload \in Payloads :
        (Record(soviet, toRole).connected /\ Holder # toRole) =>
            Yield(soviet, People, toRole, payload).err = NoErr

(***************************************************************************)
(* C22: deregistering an unknown role fails.  In every reachable state     *)
(* DeregisterAgent of a role that is not in the registry returns an error  *)
(* and leaves the token, the registry and the records unchanged, also when *)
(* the role is the holder or people.                                       *)
(***************************************************************************)
C22_DeregisterUnknownFails ==
    \A role \in Roles :
        ~IsAgentRegistered(soviet, role) =>
            LET r == DeregisterAgent(soviet, role, soviet.barrel.transferTime) IN
            r.err # NoErr /\ r.s = soviet

C22_Witness ==
    /\ ret.op = "DeregisterAgent" /\ (\E r \in Roles : ret.err = ErrNotFound(r))
    /\ ~IsAgentRegistered(soviet, Holder)
    /\ DOMAIN soviet.agents # {}

(***************************************************************************)
(* C23: queries are read-only.  A goroutine that is handling a             *)
(* QUERY_STATUS or QUERY_AGENTS line has not changed the token, the        *)
(* registry, the records or the bindings while handling it.  In every      *)
(* reachable state such a line, handled on an open stream with no step of  *)
(* another goroutine in between, writes one reply to the asking stream and *)
(* nothing else; the STATUS reply carries the holder, the role set, and    *)
(* each role's state and connected flag of the coordinator's current       *)
(* state; the same query handled again right away gets an equal reply.     *)
(***************************************************************************)
QueryFrames ==
    { TCPMessage("QUERY_STATUS", "", "", "", ""), TCPMessage("QUERY_AGENTS", "", "", "", "") }

QueryLabels == QueryStatusLabels \cup QueryHandlerLabels

AnswersCurrentState ==
    \A c \in Conns, f \in QueryFrames :
        (Running /\ connState[c] = "open" /\ pc[c] = "read") =>
            LET r == Serve(Shared, c, f, LastTransferTime(soviet))
                out == Replies(r, c)
                reply == out[1]
                again == Serve(r, c, f, LastTransferTime(soviet))
            IN /\ r.s = soviet /\ r.conns = connections
               /\ Len(out) = 1 /\ \A d \in Conns \ {c} : r.w[d] = wire[d]
               /\ f.Type = "QUERY_STATUS" =>
                     /\ reply.Type = "STATUS"
                     /\ reply.BarrelHolder = soviet.barrel.currentHolder
                     /\ reply.RegisteredAgents = GetAgentRoles(soviet)
                     /\ DOMAIN reply.RegisteredAgents = DOMAIN soviet.agents
                     /\ DOMAIN reply.AgentStates = DOMAIN soviet.agents
                     /\ DOMAIN reply.ConnectedAgents = DOMAIN soviet.agents
                     /\ \A role \in DOMAIN soviet.agents :
                           /\ reply.AgentStates[role] = Record(soviet, role).state
                           /\ reply.ConnectedAgents[role] = Record(soviet, role).connected
               /\ f.Type = "QUERY_AGENTS" =>
                     /\ reply.Type = "AGENT_DETAILS"
                     /\ DOMAIN reply.AgentDetails = DOMAIN soviet.agents
               /\ again.w[c] = Append(r.w[c], reply)

C24_LogMonotone ==
    LET h == soviet.barrel.history IN
    /\ \A i \in 1..(Len(h) - 1) : h[i].Timestamp <= h[i + 1].Timestamp
    /\ soviet.barrel.transferTime = h[Len(h)].Timestamp

C24_Witness ==
    LET h == soviet.barrel.history IN
    /\ Len(h) = 3
    /\ h[1].Timestamp < h[2].Timestamp /\ h[2].Timestamp < h[3].Timestamp
    /\ soviet.barrel.transferTime = h[3].Timestamp
    /\ ret.op = "ProcessYield" /\ ret.err = NoErr

(***************************************************************************)
(* C25: shutdown.  Once main has received the shutdown signal and called   *)
(* Stop no new connection is accepted, and eventually every peer stream is *)
(* closed and no handler is left in its read loop.                         *)
(***************************************************************************)
Stopped == ret.op = "Stop"

HandlerGone(c) == connState[c] = "free" \/ pc[c] = "exited" \/ ~Running

C25_Shutdown ==
    /\ [][Stopped => \A c \in Conns : connState[c] = "free" => connState'[c] = "free"]_vars
    /\ Stopped ~> (\A c \in Conns : connState[c] \in {"free", "released"} /\ HandlerGone(c))

C25_Witness ==
    /\ Stopped /\ ended = "exit status 0" /\ listener = "closed"
    /\ \A c \in Conns : connState[c] = "released" /\ pc[c] # "exited"
    /\ \E c \in Conns : pc[c] # "read"

(***************************************************************************)
(* C26: errors keep the stream open.  A goroutine that is about to answer  *)
(* a line with an ERROR (the line is not JSON, has an unknown type, lacks  *)
(* a required field or was rejected by the coordinator) has not changed    *)
(* the coordinator state or the bindings while handling the line; the step *)
(* that answers writes exactly one message, an ERROR, to that stream and   *)
(* nothing to any other, closes no stream and takes the handler back to    *)
(* its read loop, the lines queued behind the rejected one still queued.   *)
(***************************************************************************)
C26_ErrorsKeepStreamOpen ==
    [][\A c \in Conns :
          /\ pc'[c] = "send_error" => ~cmd'[c].wrote
          /\ (pc[c] = "send_error" /\ pc'[c] # pc[c] /\ connState[c] = "open") =>
                /\ wire'[c] = Append(wire[c], ErrorMessage(cmd[c].err))
                /\ \A d \in Conns : d # c => wire'[d] = wire[d]
                /\ connState' = connState
                /\ soviet' = soviet /\ connections' = connections
                /\ pc'[c] = "read" /\ inbox' = inbox]_vars

(***************************************************************************)
(* C27: per-stream FIFO.  Every step in which a stream's handler takes a   *)
(* line off its queue takes the oldest one, and takes it only when the     *)
(* handling of the line before it is complete, its replies written; so     *)
(* commands take effect and replies are written in the order the lines     *)
(* were received.  A blank line is taken off in its turn and skipped: it   *)
(* is no command and no line overtakes it.                                 *)
(***************************************************************************)
C27_PerStreamFIFO ==
    [][\A c \in Conns :
          Len(inbox'[c]) < Len(inbox[c]) =>
              /\ pc[c] = "read" /\ cmd[c] = NoLocals
              /\ inbox'[c] = Tail(inbox[c])
              /\ IF Head(inbox[c]).Blank
                 THEN pc'[c] = "read" /\ cmd'[c] = NoLocals /\ issued' = issued
                 ELSE /\ cmd'[c].f = Head(inbox[c])
                      /\ issued' = Append(issued, [conn |-> c, frame |-> Head(inbox[c])])
              /\ soviet' = soviet /\ connections' = connections /\ wire' = wire]_vars

C27_Witness ==
    \E c \in Conns :
        /\ Len(issued) = 2 /\ issued[1].conn = c /\ issued[2].conn = c
        /\ issued[1].frame.Type = "QUERY_STATUS" /\ issued[2].frame.Type = "REGISTER"
        /\ inbox[c] = <<>> /\ pc[c] = "read"
        /\ Len(wire[c]) = 2
        /\ wire[c][1].Type = "STATUS" /\ wire[c][2].Type = "ACK_REGISTER"

(***************************************************************************)
(* C28: one role per stream.  In every reachable state no stream is the    *)
(* binding of two roles.                                                   *)
(***************************************************************************)
C28_OneRolePerStream ==
    \A r1 \in DOMAIN connections, r2 \in DOMAIN connections :
        r1 # r2 => connections[r1] # connections[r2]

(***************************************************************************)
(* C29: token transfer rule.  In every reachable state, for every target,  *)
(* payload and clock reading: TransferTo fails and leaves the holder, the  *)
(* last payload, the transfer time and the log as they are when the target *)
(* is empty or is the holder; otherwise it succeeds, the holder is the     *)
(* target, the last payload is the payload, the transfer time is the time  *)
(* read, and the log is the old log followed by exactly one entry (from    *)
(* the old holder, to the target, with the payload and the time read).     *)
(***************************************************************************)
C29_TransferRule ==
    LET b == soviet.barrel IN
    \A toRole \in Roles, payload \in Payloads, t \in Clock(soviet) :
        LET r == TransferTo(b, toRole, payload, t) IN
        IF toRole = "" \/ toRole = b.currentHolder
        THEN r.err # NoErr /\ r.barrel = b
        ELSE /\ r.err = NoErr
             /\ r.barrel.currentHolder = toRole
             /\ r.barrel.lastMessage = payload
             /\ r.barrel.transferTime = t
             /\ Len(r.barrel.history) = Len(b.history) + 1
             /\ SubSeq(r.barrel.history, 1, Len(b.history)) = b.history
             /\ r.barrel.history[Len(r.barrel.history)] =
                    TransferRecord(b.currentHolder, toRole, payload, t)

C29_Witness ==
    /\ ret.op = "ProcessYield" /\ ret.err = NoErr
    /\ soviet.barrel.currentHolder = "developer"
    /\ soviet.barrel.lastMessage = "p1"
    /\ soviet.barrel.transferTime = 1
    /\ soviet.barrel.history =
          <<TransferRecord("", People, InitialMessage, 0),
            TransferRecord(People, "developer", "p1", 1)>>

(***************************************************************************)
(* C30: agent record state machine.  For every agent record of every       *)
(* reachable state and every payload: Activate succeeds exactly when the   *)
(* record is waiting, and then the record is working with the payload as   *)
(* its last message and nothing else changed; Yield succeeds exactly when  *)
(* the record is working, and then the record is waiting and nothing else  *)
(* changed; TransitionTo succeeds exactly for waiting -> working and       *)
(* working -> waiting; every other call (Activate while working, Yield     *)
(* while waiting, TransitionTo the current state) returns an error and     *)
(* leaves the record as it is.                                             *)
(***************************************************************************)
C30_AgentStateMachine ==
    \A p \in 1..Len(soviet.heap) :
        LET a == soviet.heap[p] IN
        /\ \A payload \in Payloads :
              LET r == AgentActivate(a, payload) IN
              IF a.state = AgentStateWaiting
              THEN r.err = NoErr
                   /\ r.agent = [a EXCEPT !.state = AgentStateWorking, !.lastMessage = payload]
              ELSE r.err # NoErr /\ r.agent = a
        /\ LET r == AgentYield(a) IN
           IF a.state = AgentStateWorking
           THEN r.err = NoErr /\ r.agent = [a EXCEPT !.state = AgentStateWaiting]
           ELSE r.err # NoErr /\ r.agent = a
        /\ \A newState \in {AgentStateWaiting, AgentStateWorking} :
              LET r == TransitionTo(a, newState) IN
              IF newState # a.state
              THEN r.err = NoErr /\ r.agent = [a EXCEPT !.state = newState]
              ELSE r.err # NoErr /\ r.agent = a

C30_Witness ==
    /\ ret.op = "ProcessYield" /\ ret.err = NoErr
    /\ Len(soviet.barrel.history) = 3
    /\ \E p \in 1..Len(soviet.heap), q \in 1..Len(soviet.heap) :
          /\ soviet.heap[p].state = AgentStateWaiting
          /\ soviet.heap[p].lastMessage = soviet.barrel.history[2].Message
          /\ soviet.heap[q].state = AgentStateWorking
          /\ soviet.heap[q].lastMessage = "p2"

(***************************************************************************)
(* C31: resume records the directive.  In every reachable state whose      *)
(* holder is an agent role r, the record that RegisterAgent inserts for r  *)
(* is active and its last message is the token's last payload.             *)
(***************************************************************************)
C31_ResumeRecordsDirective ==
    \A r \in AgentRoles :
        Holder = r =>
            LET res == RegisterAgent(soviet, r)
                p   == GetAgent(res.s, r)
            IN /\ res.resume
               /\ res.s.heap[p].state = AgentStateWorking
               /\ res.s.heap[p].lastMessage = soviet.barrel.lastMessage

(***************************************************************************)
(* C32: registering a non-holder is framed.  In every reachable state, for *)
(* every non-empty role r other than the holder, RegisterAgent(r) returns  *)
(* (false, "") without error, the registry then holds for r a new record   *)
(* that is idle and connected, the token (holder, last payload, transfer   *)
(* time, log) is unchanged, and every other role keeps its record with its *)
(* state and connectedness, whether or not r was registered before.        *)
(***************************************************************************)
C32_RegisterNonHolderFramed ==
    \A r \in Roles \ {""} :
        Holder # r =>
            LET res == RegisterAgent(soviet, r)
                p   == Len(soviet.heap) + 1
            IN /\ res.err = NoErr /\ ~res.resume /\ res.msg = ""
               /\ DOMAIN res.s.agents = DOMAIN soviet.agents \cup {r}
               /\ GetAgent(res.s, r) = p
               /\ res.s.heap[p].state = AgentStateWaiting
               /\ res.s.heap[p].connected
               /\ res.s.barrel = soviet.barrel
               /\ \A x \in DOMAIN soviet.agents \ {r} :
                     /\ res.s.agents[x] = soviet.agents[x]
                     /\ res.s.heap[res.s.agents[x]] = soviet.heap[soviet.agents[x]]

C32_Witness ==
    /\ ret.op = "RegisterAgent" /\ ret.err = NoErr /\ ~ret.resume /\ ret.msg = ""
    /\ Holder = "developer" /\ IsActive(soviet, "developer")
    /\ soviet.agents["developer"] = 1
    /\ IsAgentRegistered(soviet, "tester") /\ soviet.agents["tester"] = 2
    /\ IsIdle(soviet, "tester") /\ Record(soviet, "tester").connected

(***************************************************************************)
(* C33: binding and registry move in lockstep.  When two REGISTER lines    *)
(* for the same agent role r were taken up on two different streams and    *)
(* both handlers are back at their read loops, r is registered and its     *)
(* binding is the stream whose REGISTER allocated the record now in the    *)
(* registry.  A handler binds its stream and allocates its record in one   *)
(* step, so the stream bound last allocated the newest record.             *)
(***************************************************************************)
C33_BindingFollowsRegistry ==
    ( /\ Running /\ Quiescent
      /\ Len(issued) = 2
      /\ issued[1].frame.Type = "REGISTER" /\ issued[2].frame.Type = "REGISTER"
      /\ issued[1].frame.Role = issued[2].frame.Role
      /\ issued[1].conn # issued[2].conn )
    => LET r == issued[1].frame.Role IN
       /\ r \in DOMAIN soviet.agents
       /\ r \in DOMAIN connections
       /\ soviet.agents[r] = Len(soviet.heap)

(***************************************************************************)
(* C34: the transfer log is an append-only ownership chain.  Every step    *)
(* keeps the existing entries as they are; it appends exactly one entry    *)
(* when it is a successful yield or a successful deregistration of the     *)
(* role that holds the token, and none otherwise.  In every reachable      *)
(* state each entry's from is the previous entry's to, and the last        *)
(* entry's to is the current holder.                                       *)
(***************************************************************************)
Transferring ==
    \/ ret'.op = "ProcessYield" /\ ret'.err = NoErr
    \/ /\ ret'.op = "DeregisterAgent" /\ ret'.err = NoErr
       /\ Holder \in DOMAIN soviet.agents /\ Holder \notin DOMAIN soviet'.agents

C34_LogIsOwnershipChain ==
    /\ [][ LET h == soviet.barrel.history
               g == soviet'.barrel.history
           IN /\ Len(g) = Len(h) + (IF Transferring THEN 1 ELSE 0)
              /\ SubSeq(g, 1, Len(h)) = h ]_vars
    /\ [](LET h == soviet.barrel.history IN
           /\ \A i \in 1..(Len(h) - 1) : h[i + 1].FromRole = h[i].ToRole
           /\ h[Len(h)].ToRole = Holder)

(***************************************************************************)
(* C35: the holder always has a live active record.  In every reachable    *)
(* state, if the holder is not people then the holder is registered and    *)
(* its record is active, and a yield from the holder passes the            *)
(* state-consistency check.                                                *)
(***************************************************************************)
C35_HolderHasActiveRecord ==
    Holder # People =>
        /\ Holder \in DOMAIN soviet.agents
        /\ Record(soviet, Holder).state = AgentStateWorking
        /\ ValidateAgentStateConsistency(soviet, Holder) = NoErr

C35_Witness ==
    /\ ret.op = "ProcessYield" /\ ret.err = NoErr
    /\ Holder = "tester" /\ Len(soviet.barrel.history) = 3
    /\ soviet.barrel.history[3].FromRole = "developer"
    /\ IsActive(soviet, "tester")
    /\ ValidateAgentStateConsistency(soviet, "tester") = NoErr

(***************************************************************************)
(* C36: registry records are always connected.  In every state reached     *)
(* through REGISTER and YIELD lines and stream closes in which no line is  *)
(* being handled, every record in the registry is connected, every record  *)
(* that is not connected has been evicted from the registry and target     *)
(* validation does not answer 'not connected' for a registered role; and   *)
(* in no reachable state has a stream been sent that answer for an agent   *)
(* role.                                                                   *)
(***************************************************************************)
AllConnected(s) ==
    /\ \A r \in DOMAIN s.agents : Record(s, r).connected
    /\ \A p \in 1..Len(s.heap) :
          ~s.heap[p].connected => \A r \in DOMAIN s.agents : s.agents[r] # p
    /\ \A r \in DOMAIN s.agents :
          ValidateTargetAgent(s, r) # ErrTargetNotConnected(r)

NeverAnswered(message) ==
    \A c \in Conns : \A i \in 1..Len(wire[c]) : wire[c][i] # ErrorMessage(message)

C36_RegistryRecordsConnected ==
    /\ (Running /\ Quiescent) => AllConnected(soviet)
    /\ \A r \in AgentRoles : NeverAnswered(ErrTargetNotConnected(r))

(***************************************************************************)
(* C37: deregistering a non-holder is framed.  In every reachable state,   *)
(* for every registered role r that does not hold the token,               *)
(* DeregisterAgent(r) succeeds, removes r from the registry and nothing    *)
(* else, and leaves the token (holder, last payload, transfer time, log)   *)
(* and every record unchanged.                                             *)
(***************************************************************************)
C37_DeregisterNonHolderFramed ==
    \A r \in DOMAIN soviet.agents, t \in Clock(soviet) :
        Holder # r =>
            LET res == DeregisterAgent(soviet, r, t) IN
            /\ res.err = NoErr
            /\ DOMAIN res.s.agents = DOMAIN soviet.agents \ {r}
            /\ \A x \in DOMAIN res.s.agents : res.s.agents[x] = soviet.agents[x]
            /\ res.s.barrel = soviet.barrel
            /\ res.s.heap = soviet.heap

C37_Witness ==
    /\ ret.op = "DeregisterAgent" /\ ret.err = NoErr
    /\ Holder \in AgentRoles /\ IsActive(soviet, Holder)
    /\ DOMAIN soviet.agents = {Holder}
    /\ Len(soviet.heap) = 2 /\ soviet.heap[1].role # soviet.heap[2].role
    /\ Len(soviet.barrel.history) = 2

====
